---- MODULE Spec2Model ----
(***************************************************************************)
(* A model of three parts of the repository:                               *)
(*   - tugger-debian/src/binary_package_control.rs: the typed accessors of *)
(*     BinaryPackageControlFile over one control paragraph;                *)
(*   - tugger-debian/src/repository/http.rs: the root, distribution and    *)
(*     release HTTP clients and fetch_url;                                 *)
(*   - the dependency resolver driven by http.rs's test (its code is not   *)
(*     part of the sources at hand, so it follows the written design).     *)
(* Text is a sequence of one-character strings, so that trimming, joining  *)
(* and parsing are computed character by character as the code does.       *)
(***************************************************************************)
EXTENDS Integers, Sequences, FiniteSets, TLC

VARIABLES
    paragraph,      \* BinaryPackageControlFile.paragraph: sequence of fields
    original,       \* the paragraph the view was made from (From::from)
    accessor,       \* the accessor called last on the view ("none" at first)
    accResult,      \* what that accessor returned
    roots,          \* the HttpRepositoryClient values constructed so far
    dist,           \* the HttpDistributionClient derived last, if any
    release,        \* the HttpReleaseClient fetched last, if any
    flights,        \* the get_path calls under way, each at its own point
    httpCall,       \* the last call on an HTTP client and all it did
    pool,           \* DependencyResolver: the packages loaded, in load order
    resCall,        \* the resolver query made last, with a direct query's result
    queue,          \* transitive query: packages reached and not yet expanded
    visited,        \* transitive query: identities of the packages reached
    deps,           \* transitive query: the (package, source) pairs so far
    resPc,          \* "idle", "running" (a traversal is under way), "done", "failed"
    versions,       \* the PackageVersion values at hand, as parsed
    cmpCall,        \* the comparison of two of them made last
    interp,         \* MainPythonInterpreter: config, init_run, gil, py
    python,         \* the embedded Python: what was executed on it so far
    build,          \* the constants the crate was built with (RUN_MODE)
    pyCall,         \* the call made last on the interpreter and its uses
    target,         \* the platform the tugger crate is built for
    machine,        \* what the Windows support code finds on the machine
    winCall,        \* the call made last on the Windows support code
    viewText,       \* the paragraph a control text parses to
    views,          \* the views made from it
    viewCall        \* the accessor call made last on one of the views

ctlVars == <<paragraph, original, accessor, accResult>>

httpVars == <<roots, dist, release, flights, httpCall>>

resVars == <<pool, resCall, queue, visited, deps, resPc>>

ordVars == <<versions, cmpCall>>

pyVars == <<interp, python, build, pyCall>>

winVars == <<target, machine, winCall>>

viewVars == <<viewText, views, viewCall>>

\* What the operations of one part leave alone: the other parts.
exceptCtl == <<httpVars, resVars, ordVars, pyVars, winVars, viewVars>>

exceptHttp == <<ctlVars, resVars, ordVars, pyVars, winVars, viewVars>>

exceptRes == <<ctlVars, httpVars, ordVars, pyVars, winVars, viewVars>>

exceptOrd == <<ctlVars, httpVars, resVars, pyVars, winVars, viewVars>>

exceptPy == <<ctlVars, httpVars, resVars, ordVars, winVars, viewVars>>

exceptWin == <<ctlVars, httpVars, resVars, ordVars, pyVars, viewVars>>

exceptView == <<ctlVars, httpVars, resVars, ordVars, pyVars, winVars>>

----------------------------------------------------------------------------
(* Option and Result values.  An Option is a sequence of zero or one       *)
(* element; a Result is a tagged record.                                   *)

None == <<>>

Some(x) == <<x>>

Ok(v) == [tag |-> "Ok", val |-> v]

Err(e) == [tag |-> "Err", err |-> e]

IsOk(r) == r.tag = "Ok"

IsErr(r) == r.tag = "Err"

----------------------------------------------------------------------------
(* Text helpers (std::str).                                                *)

Digits == {"0", "1", "2", "3", "4", "5", "6", "7", "8", "9"}

DigitVal == [c \in Digits |->
    CASE c = "0" -> 0 [] c = "1" -> 1 [] c = "2" -> 2 [] c = "3" -> 3
      [] c = "4" -> 4 [] c = "5" -> 5 [] c = "6" -> 6 [] c = "7" -> 7
      [] c = "8" -> 8 [] c = "9" -> 9]

IsDigit(c) == c \in Digits

AllDigits(s) == \A i \in 1..Len(s) : IsDigit(s[i])

RECURSIVE DecimalValue(_)
DecimalValue(s) ==
    IF s = <<>> THEN 0
    ELSE 10 * DecimalValue(SubSeq(s, 1, Len(s) - 1)) + DigitVal[s[Len(s)]]

\* str::trim_start_matches(c)
RECURSIVE trim_start_matches(_, _)
trim_start_matches(s, c) ==
    IF s # <<>> /\ Head(s) = c THEN trim_start_matches(Tail(s), c) ELSE s

\* str::trim_end_matches(c)
RECURSIVE trim_end_matches(_, _)
trim_end_matches(s, c) ==
    IF s # <<>> /\ s[Len(s)] = c
    THEN trim_end_matches(SubSeq(s, 1, Len(s) - 1), c)
    ELSE s

\* str::trim_matches(c)
trim_matches(s, c) == trim_end_matches(trim_start_matches(s, c), c)

\* str::trim (only the space is a whitespace character of the model)
trim(s) == trim_matches(s, " ")

starts_with(s, c) == s # <<>> /\ Head(s) = c

ends_with(s, c) == s # <<>> /\ s[Len(s)] = c

\* Index of the first / last occurrence of c in s, 0 when there is none.
FirstIndexOf(s, c) ==
    IF \E i \in 1..Len(s) : s[i] = c
    THEN CHOOSE i \in 1..Len(s) : s[i] = c /\ \A j \in 1..(i - 1) : s[j] # c
    ELSE 0

LastIndexOf(s, c) ==
    IF \E i \in 1..Len(s) : s[i] = c
    THEN CHOOSE i \in 1..Len(s) : s[i] = c /\ \A j \in (i + 1)..Len(s) : s[j] # c
    ELSE 0

\* str::split(c): the pieces of s between occurrences of c.
RECURSIVE split(_, _)
split(s, c) ==
    LET i == FirstIndexOf(s, c)
    IN  IF i = 0 THEN <<s>>
        ELSE <<SubSeq(s, 1, i - 1)>> \o split(SubSeq(s, i + 1, Len(s)), c)

----------------------------------------------------------------------------
(* ControlParagraph (control.rs): an ordered sequence of fields            *)
(* [name, value].  Lookup takes the first field whose name matches,        *)
(* without regard to case.                                                 *)

\* The lower-case spelling of the field names the inputs use.
to_lowercase(name) ==
    CASE name = "Package" -> "package"
      [] name = "Version" -> "version"
      [] name = "Architecture" -> "architecture"
      [] name = "Maintainer" -> "maintainer"
      [] name = "Description" -> "description"
      [] name = "Depends" -> "depends"
      [] name = "Pre-Depends" -> "pre-depends"
      [] name = "Recommends" -> "recommends"
      [] name = "Suggests" -> "suggests"
      [] name = "Enhances" -> "enhances"
      [] OTHER -> name

FieldNameMatches(fieldName, name) == to_lowercase(fieldName) = to_lowercase(name)

\* ControlParagraph::first_field
RECURSIVE ParagraphFirstField(_, _)
ParagraphFirstField(fields, name) ==
    IF fields = <<>> THEN None
    ELSE IF FieldNameMatches(Head(fields).name, name) THEN Some(Head(fields))
    ELSE ParagraphFirstField(Tail(fields), name)

\* ControlParagraph::first_field_str
FieldValue(f) == IF f = None THEN None ELSE Some(f[1].value)

ParagraphFirstFieldStr(fields, name) == FieldValue(ParagraphFirstField(fields, name))

----------------------------------------------------------------------------
(* PackageVersion::parse (package_version.rs): [epoch:]upstream[-revision] *)

PackageVersionParse(s) ==
    LET colon == FirstIndexOf(s, ":")
        epochText == SubSeq(s, 1, colon - 1)
        rest == SubSeq(s, colon + 1, Len(s))
        dash == LastIndexOf(rest, "-")
    IN  IF colon # 0 /\ (epochText = <<>> \/ ~AllDigits(epochText))
        THEN Err([kind |-> "EpochNonNumeric"])
        ELSE IF rest = <<>> \/ (dash # 0 /\ dash = 1)
        THEN Err([kind |-> "UpstreamVersionMissing"])
        ELSE Ok([epoch |-> IF colon = 0 THEN 0 ELSE DecimalValue(epochText),
                 upstream_version |->
                     IF dash = 0 THEN rest ELSE SubSeq(rest, 1, dash - 1),
                 debian_revision |->
                     IF dash = 0 THEN None
                     ELSE Some(SubSeq(rest, dash + 1, Len(rest)))])

----------------------------------------------------------------------------
(* DependencyList::parse (dependency.rs):                                  *)
(*   list := expr (',' expr)* ; expr := alt ('|' alt)* ;                   *)
(*   alt  := name ['+' arch] ['(' relop version ')']                       *)

RelOps == {<<"<", "<">>, <<"<", "=">>, <<"=">>, <<">", "=">>, <<">", ">">>}

RelOpChars == {"<", ">", "=", "~", "!"}

\* The longest prefix of s made of characters in (not in) set.
RECURSIVE TakeWhileIn(_, _)
TakeWhileIn(s, set) ==
    IF s # <<>> /\ Head(s) \in set
    THEN <<Head(s)>> \o TakeWhileIn(Tail(s), set)
    ELSE <<>>

RECURSIVE TakeWhileNotIn(_, _)
TakeWhileNotIn(s, set) ==
    IF s # <<>> /\ Head(s) \notin set
    THEN <<Head(s)>> \o TakeWhileNotIn(Tail(s), set)
    ELSE <<>>

\* The constraint (relation, version), v being the version as parsed.
VersionConstraint(relation, v) ==
    IF IsErr(v) THEN Err([kind |-> "MalformedConstraint"])
    ELSE Ok([relation |-> relation, version |-> v.val])

\* The constraint made of the relation op and the version text ver.
ConstraintOf(op, ver) ==
    IF op \notin RelOps THEN Err([kind |-> "UnknownRelation"])
    ELSE IF ver = <<>> THEN Err([kind |-> "MalformedConstraint"])
    ELSE VersionConstraint(op, PackageVersionParse(ver))

ParseRelation(t, op) == ConstraintOf(op, trim(SubSeq(t, Len(op) + 1, Len(t))))

ParseTrimmedConstraint(t) == ParseRelation(t, TakeWhileIn(t, RelOpChars))

\* The text between the parentheses of a version constraint.
ParseConstraint(inner) == ParseTrimmedConstraint(trim(inner))

\* The `?` of a loop that collects: the first failure, or h before t.
Collect(h, t) ==
    IF IsErr(h) THEN h
    ELSE IF IsErr(t) THEN t
    ELSE Ok(<<h.val>> \o t.val)

\* Result::map(Some)
ResultMap(r) == IF IsErr(r) THEN r ELSE Ok(Some(r.val))

\* The alternative named by full, with the constraint c when there is one.
AlternativeOf(full, c) ==
    LET plus == FirstIndexOf(full, "+")
    IN  IF IsErr(c) THEN c
        ELSE Ok([package |-> IF plus = 0 THEN full ELSE SubSeq(full, 1, plus - 1),
                 arch |-> IF plus = 0 THEN None
                          ELSE Some(SubSeq(full, plus + 1, Len(full))),
                 constraint |-> c.val])

\* The text after the name: nothing, or a constraint in parentheses.
ParseOptionalConstraint(rest) ==
    IF rest = <<>> THEN Ok(None)
    ELSE IF ~(starts_with(rest, "(") /\ ends_with(rest, ")") /\ Len(rest) >= 2)
    THEN Err([kind |-> "UnbalancedParenthesis"])
    ELSE ResultMap(ParseConstraint(SubSeq(rest, 2, Len(rest) - 1)))

\* One alternative, t being its text without the surrounding spaces and full
\* the name (with architecture) it starts with.
ParseNamed(t, full) ==
    IF full = <<>> \/ Head(full) = "+" THEN Err([kind |-> "MissingName"])
    ELSE AlternativeOf(full,
             ParseOptionalConstraint(trim(SubSeq(t, Len(full) + 1, Len(t)))))

ParseTrimmedAlternative(t) == ParseNamed(t, TakeWhileNotIn(t, {" ", "("}))

ParseAlternative(text) == ParseTrimmedAlternative(trim(text))

\* The alternatives of one expression; the first failure is the result.
RECURSIVE ParseAlternatives(_)
ParseAlternatives(pieces) ==
    IF pieces = <<>> THEN Ok(<<>>)
    ELSE Collect(ParseAlternative(Head(pieces)), ParseAlternatives(Tail(pieces)))

ParseExpression(text) == ParseAlternatives(split(text, "|"))

RECURSIVE ParseExpressions(_)
ParseExpressions(pieces) ==
    IF pieces = <<>> THEN Ok(<<>>)
    ELSE Collect(ParseExpression(Head(pieces)), ParseExpressions(Tail(pieces)))

DependencyListParse(text) == ParseExpressions(split(text, ","))

----------------------------------------------------------------------------
(* BinaryPackageControlFile (binary_package_control.rs).  self is the      *)
(* wrapped paragraph.                                                      *)

RequiredFieldMissing(field) == [kind |-> "RequiredFieldMissing", field |-> field]

first_field_str(self, name) == ParagraphFirstFieldStr(self, name)

\* Option::ok_or, missing being the result of the None case
ok_or(v, missing) == IF v = None THEN missing ELSE Ok(v[1])

\* A slip: a missing field read as the empty string instead of an error.
required_field_or_default(self, field) ==
    ok_or(ParagraphFirstFieldStr(self, field), Ok(<<>>))

required_field(self, field) ==
    ok_or(ParagraphFirstFieldStr(self, field), Err(RequiredFieldMissing(field)))

package(self) == required_field(self, "Package")

version_str(self) == required_field(self, "Version")

\* The `?` on a result of another error type: From wraps the error.
Wrap(kind, r) == IF IsErr(r) THEN Err([kind |-> kind, source |-> r.err]) ELSE r

\* PackageVersion::parse(s?)?
parse_version_str(s) ==
    IF IsErr(s) THEN s ELSE Wrap("Version", PackageVersionParse(s.val))

version(self) == parse_version_str(version_str(self))

architecture(self) == required_field(self, "Architecture")

maintainer(self) == required_field(self, "Maintainer")

description(self) == required_field(self, "Description")

\* The closure |x| Ok(DependencyList::parse(x)?) of the relationship accessors.
parse_dependency_field(x) == Wrap("Depends", DependencyListParse(x))

\* Option::map of the closure
map_parse(v) == IF v = None THEN None ELSE Some(parse_dependency_field(v[1]))

depends(self) ==
    map_parse(ParagraphFirstFieldStr(self, "Depends"))

recommends(self) ==
    map_parse(ParagraphFirstFieldStr(self, "Recommends"))

suggests(self) ==
    map_parse(ParagraphFirstFieldStr(self, "Suggests"))

enhances(self) ==
    map_parse(ParagraphFirstFieldStr(self, "Enhances"))

\* A slip of copying: Pre-Depends answered from the Depends field.
pre_depends_from_depends(self) ==
    map_parse(ParagraphFirstFieldStr(self, "Depends"))

pre_depends(self) ==
    map_parse(ParagraphFirstFieldStr(self, "Pre-Depends"))

BinaryPackageControlFile_source(self) == ParagraphFirstFieldStr(self, "Source")

section(self) == ParagraphFirstFieldStr(self, "Section")

priority(self) == ParagraphFirstFieldStr(self, "Priority")

essential(self) == ParagraphFirstFieldStr(self, "Essential")

homepage(self) == ParagraphFirstFieldStr(self, "Homepage")

built_using(self) == ParagraphFirstFieldStr(self, "Built-Using")

\* usize::MAX of a 64-bit target, in decimal.  A usize is kept as its
\* decimal digits without leading zeros: the numbers below exceed what the
\* checker's integers hold.
USIZE_MAX ==
    <<"1", "8", "4", "4", "6", "7", "4", "4", "0", "7",
      "3", "7", "0", "9", "5", "5", "1", "6", "1", "5">>

RECURSIVE StripZeros(_)
StripZeros(s) ==
    IF Len(s) > 1 /\ Head(s) = "0" THEN StripZeros(Tail(s)) ELSE s

\* a > b, for numbers written without leading zeros
Exceeds(a, b) ==
    \/ Len(a) > Len(b)
    \/ /\ Len(a) = Len(b)
       /\ \E i \in 1..Len(a) : /\ DigitVal[a[i]] > DigitVal[b[i]]
                               /\ \A j \in 1..(i - 1) : a[j] = b[j]

ParseIntError(kind) == [kind |-> kind]

\* The digit loop of from_str_radix: each character must be a digit, and the
\* number read so far, times ten plus the digit, must not exceed usize::MAX.
RECURSIVE usize_digits(_, _)
usize_digits(result, digits) ==
    IF digits = <<>> THEN Ok(result)
    ELSE IF ~IsDigit(Head(digits)) THEN Err(ParseIntError("InvalidDigit"))
    ELSE IF Exceeds(StripZeros(result \o <<Head(digits)>>), USIZE_MAX)
    THEN Err(ParseIntError("PosOverflow"))
    ELSE usize_digits(StripZeros(result \o <<Head(digits)>>), Tail(digits))

\* usize::from_str: empty text and a lone sign are errors, one leading '+'
\* is accepted, '-' is not a digit of an unsigned number.
usize_from_str(x) ==
    IF x = <<>> THEN Err(ParseIntError("Empty"))
    ELSE IF x = <<"+">> \/ x = <<"-">> THEN Err(ParseIntError("InvalidDigit"))
    ELSE IF Head(x) = "+" THEN usize_digits(<<"0">>, Tail(x))
    ELSE usize_digits(<<"0">>, x)

\* The closure |x| Ok(usize::from_str(x)?) of installed_size.
parse_installed_size(x) == Wrap("IntegerParse", usize_from_str(x))

\* A slip: a size that does not parse answered as an absent field.
installed_size_or_absent(self) ==
    IF ParagraphFirstFieldStr(self, "Installed-Size") = None THEN None
    ELSE IF IsErr(parse_installed_size(
                      ParagraphFirstFieldStr(self, "Installed-Size")[1]))
    THEN None
    ELSE Some(parse_installed_size(
                  ParagraphFirstFieldStr(self, "Installed-Size")[1]))

installed_size(self) ==
    IF ParagraphFirstFieldStr(self, "Installed-Size") = None THEN None
    ELSE Some(parse_installed_size(
                  ParagraphFirstFieldStr(self, "Installed-Size")[1]))

----------------------------------------------------------------------------
(* The paragraphs the accessors are exercised on.                          *)

MaxFields == 2

Field(name, value) == [name |-> name, value |-> value]

FieldPool ==
    { Field("Package", <<"a">>), Field("package", <<"b">>),
      Field("Version", <<"1", ".", "0">>), Field("Version", <<"x", ":", "1">>),
      Field("Architecture", <<"x">>), Field("Maintainer", <<"m">>),
      Field("Description", <<"d">>),
      Field("Depends", <<"b">>),
      Field("Depends", <<"b", " ", "(", ">", "=", " ", "2", ")">>),
      Field("depends", <<"b", " ", "(">>),
      Field("Pre-Depends", <<"c", " ", "|", " ", "d">>),
      Field("Pre-Depends", <<"(", "=", "1", ")">>),
      Field("Recommends", <<"a", ",", " ", "b">>),
      Field("Recommends", <<"a", "(", "~", "1", ")">>),
      Field("Suggests", <<"a", "+", "x">>),
      Field("Suggests", <<"a", ",", ",", "b">>),
      Field("Enhances", <<"a", " ", "(", "<", "<", "1", ")">>),
      Field("Enhances", <<"|">>) }

Paragraphs == UNION {[1..n -> FieldPool] : n \in 0..MaxFields}

\* BinaryPackageControlFile::from(paragraph)
CtlInit ==
    /\ paragraph \in Paragraphs
    /\ original = paragraph
    /\ accessor = "none"
    /\ accResult = None

Returns(name, value) ==
    /\ accessor' = name
    /\ accResult' = value
    /\ UNCHANGED <<paragraph, original, exceptCtl>>

CallPackage == Returns("package", package(paragraph))

CallVersionStr == Returns("version_str", version_str(paragraph))

CallVersion == Returns("version", version(paragraph))

CallArchitecture == Returns("architecture", architecture(paragraph))

CallMaintainer == Returns("maintainer", maintainer(paragraph))

CallDescription == Returns("description", description(paragraph))

CallDepends == Returns("depends", depends(paragraph))

CallPreDepends == Returns("pre_depends", pre_depends(paragraph))

CallRecommends == Returns("recommends", recommends(paragraph))

CallSuggests == Returns("suggests", suggests(paragraph))

CallEnhances == Returns("enhances", enhances(paragraph))

\* The paragraphs a caller puts in place of the wrapped one.
Replacements == {<<>>, <<Field("Package", <<"b">>)>>}

\* *view.as_mut() = replacement: as_mut hands out the wrapped paragraph for
\* writing, and the caller writes it.
AsMutWrite(replacement) ==
    /\ paragraph' = replacement
    /\ accessor' = "as_mut"
    /\ accResult' = None
    /\ UNCHANGED <<original, exceptCtl>>

CtlNext ==
    \/ \E replacement \in Replacements : AsMutWrite(replacement)
    \/ CallPackage
    \/ CallVersionStr
    \/ CallVersion
    \/ CallArchitecture
    \/ CallMaintainer
    \/ CallDescription
    \/ CallDepends
    \/ CallPreDepends
    \/ CallRecommends
    \/ CallSuggests
    \/ CallEnhances

----------------------------------------------------------------------------
(* The optional fields: the paragraphs their accessors are exercised on.   *)

OptionalFieldPool ==
    { Field("Source", <<"s">>), Field("source", <<"t">>),
      Field("Section", <<"x">>), Field("Priority", <<"p">>),
      Field("Essential", <<"y", "e", "s">>), Field("Homepage", <<"h">>),
      Field("Built-Using", <<"b">>),
      Field("Installed-Size", <<"1", "2">>),
      Field("installed-size", <<"0", "0", "7">>),
      Field("Installed-Size", <<"+", "5">>),
      Field("Installed-Size", <<"-", "1">>),
      Field("Installed-Size", <<>>),
      Field("Installed-Size", <<"1", "x">>),
      Field("Installed-Size", USIZE_MAX),
      Field("Installed-Size",
            <<"1", "8", "4", "4", "6", "7", "4", "4", "0", "7",
              "3", "7", "0", "9", "5", "5", "1", "6", "1", "6">>) }

OptionalParagraphs == UNION {[1..n -> OptionalFieldPool] : n \in 0..MaxFields}

OptInit ==
    /\ paragraph \in OptionalParagraphs
    /\ original = paragraph
    /\ accessor = "none"
    /\ accResult = None

CallSource == Returns("source", BinaryPackageControlFile_source(paragraph))

CallSection == Returns("section", section(paragraph))

CallPriority == Returns("priority", priority(paragraph))

CallEssential == Returns("essential", essential(paragraph))

CallHomepage == Returns("homepage", homepage(paragraph))

CallInstalledSize == Returns("installed_size", installed_size(paragraph))

CallBuiltUsing == Returns("built_using", built_using(paragraph))

OptNext ==
    \/ CallSource
    \/ CallSection
    \/ CallPriority
    \/ CallEssential
    \/ CallHomepage
    \/ CallInstalledSize
    \/ CallBuiltUsing

----------------------------------------------------------------------------
(* Several views of one text: viewText is the paragraph the text parses    *)
(* to, views the BinaryPackageControlFile values made from it, viewCall    *)
(* the accessor call made last and whether a call failed before it.        *)

ViewNames == {"this", "other"}

FallibleAccessors ==
    {"package", "version_str", "version", "architecture", "maintainer",
     "description"}

OptionResultAccessors ==
    {"installed_size", "depends", "pre_depends", "recommends", "suggests",
     "enhances"}

PlainOptionAccessors ==
    {"source", "section", "priority", "essential", "homepage", "built_using"}

AccessorNames ==
    FallibleAccessors \cup OptionResultAccessors \cup PlainOptionAccessors

\* What the accessor called name returns on the view self.
Answer(name, self) ==
    CASE name = "package" -> package(self)
      [] name = "version_str" -> version_str(self)
      [] name = "version" -> version(self)
      [] name = "architecture" -> architecture(self)
      [] name = "maintainer" -> maintainer(self)
      [] name = "description" -> description(self)
      [] name = "source" -> BinaryPackageControlFile_source(self)
      [] name = "section" -> section(self)
      [] name = "priority" -> priority(self)
      [] name = "essential" -> essential(self)
      [] name = "homepage" -> homepage(self)
      [] name = "installed_size" -> installed_size(self)
      [] name = "built_using" -> built_using(self)
      [] name = "depends" -> depends(self)
      [] name = "pre_depends" -> pre_depends(self)
      [] name = "recommends" -> recommends(self)
      [] name = "suggests" -> suggests(self)
      [] name = "enhances" -> enhances(self)

\* The call failed: Err of a Result, Some(Err) of an Option<Result>.
Fails(name, r) ==
    IF name \in FallibleAccessors THEN IsErr(r)
    ELSE IF name \in OptionResultAccessors THEN r # None /\ IsErr(r[1])
    ELSE FALSE

\* A slip: a receiver taken for writing, the fields dropped when the call
\* fails.
receiver_cleared_on_failure(self, name, r) ==
    IF Fails(name, r) THEN <<>> ELSE self

\* The receiver of every accessor is &self: the view after the call is the
\* view before it.
receiver_after(self, name, r) == self

ViewFieldPool ==
    { Field("Package", <<"a">>),
      Field("Version", <<"x", ":", "1">>),
      Field("Depends", <<"b">>), Field("depends", <<"b", " ", "(">>),
      Field("Source", <<"s">>),
      Field("Installed-Size", <<"1", "2">>),
      Field("Installed-Size", <<"1", "x">>) }

ViewParagraphs == UNION {[1..n -> ViewFieldPool] : n \in 0..MaxFields}

NoViewCall == [op |-> "none", after_failure |-> FALSE]

\* BinaryPackageControlFile::from(paragraph), once per view.
ViewInit ==
    /\ viewText \in ViewParagraphs
    /\ views = [v \in ViewNames |-> viewText]
    /\ viewCall = NoViewCall

\* views[v].name()
CallAccessor(v, name) ==
    /\ viewCall' = [op |-> "call", view |-> v, accessor |-> name,
                    result |-> Answer(name, views[v]),
                    after_failure |->
                        \/ viewCall.after_failure
                        \/ /\ viewCall.op = "call"
                           /\ Fails(viewCall.accessor, viewCall.result)]
    /\ views' = [views EXCEPT
                    ![v] = receiver_after(views[v], name, Answer(name, views[v]))]
    /\ UNCHANGED <<viewText, exceptView>>

ViewNext == \E v \in ViewNames, name \in AccessorNames : CallAccessor(v, name)

----------------------------------------------------------------------------
(* Url (the url crate as reqwest uses it).  A Url is [scheme, host, path]; *)
(* every Url that into_url accepts has a host and a path starting with     *)
(* '/'.                                                                    *)

SchemeSeparator == <<":", "/", "/">>

\* reqwest::IntoUrl::into_url for &str: Url::parse, then a host is required.
into_url(text) ==
    LET colon == FirstIndexOf(text, ":")
        scheme == SubSeq(text, 1, colon - 1)
        after == SubSeq(text, colon + 3, Len(text))
        host == TakeWhileNotIn(after, {"/"})
        path == SubSeq(after, Len(host) + 1, Len(after))
    IN  IF colon = 0 \/ scheme = <<>> \/ "/" \in {scheme[i] : i \in 1..Len(scheme)}
        THEN Err([kind |-> "RelativeUrlWithoutBase"])
        ELSE IF Len(text) < colon + 2
                \/ SubSeq(text, colon, colon + 2) # SchemeSeparator
        THEN Err([kind |-> "UrlBadScheme"])
        ELSE IF host = <<>> THEN Err([kind |-> "EmptyHost"])
        ELSE Ok([scheme |-> scheme, host |-> host,
                 path |-> IF path = <<>> THEN <<"/">> ELSE path])

\* Url::set_path on a Url with a host: the path always starts with '/'.
set_path(url, path) ==
    [url EXCEPT !.path = IF starts_with(path, "/") THEN path ELSE <<"/">> \o path]

\* Url::join: a reference starting with "//" names another host, one
\* starting with "/" replaces the whole path, any other replaces what follows
\* the last '/' of the base path.
url_join(base, reference) ==
    LET after == SubSeq(reference, 3, Len(reference))
        host == TakeWhileNotIn(after, {"/"})
        path == SubSeq(after, Len(host) + 1, Len(after))
    IN  IF Len(reference) >= 2 /\ reference[1] = "/" /\ reference[2] = "/"
        THEN IF host = <<>> THEN Err([kind |-> "EmptyHost"])
             ELSE Ok([scheme |-> base.scheme, host |-> host,
                      path |-> IF path = <<>> THEN <<"/">> ELSE path])
        ELSE IF starts_with(reference, "/")
        THEN Ok([base EXCEPT !.path = reference])
        ELSE Ok([base EXCEPT
                 !.path = SubSeq(base.path, 1, LastIndexOf(base.path, "/"))
                          \o reference])

----------------------------------------------------------------------------
(* fetch_url and the clients of repository/http.rs.  net is what the       *)
(* network does with the one request a fetch may send: [send, status,      *)
(* body].  Every operation returns its result together with the root       *)
(* get_path calls it made and the requests that were sent.                 *)

IoPath(path, what) ==
    [variant |-> "IoPath", path |-> path, kind |-> "Other", what |-> what]

StatusIsError(status) == status >= 400 /\ status <= 599

\* A slip: a request whose sending failed is sent once more.
fetch_url_retrying(client, root_url, path, net) ==
    LET joined == url_join(root_url, path)
        request == [client |-> client, url |-> joined.val]
    IN  IF IsErr(joined)
        THEN [result |-> Err([variant |-> "Url", source |-> joined.err]),
              requests |-> <<>>]
        ELSE IF net.send = "error"
        THEN [result |-> Err(IoPath(path, <<"error sending HTTP request">>)),
              requests |-> <<request, request>>]
        ELSE IF StatusIsError(net.status)
        THEN [result |-> Err(IoPath(path, <<"bad HTTP status code", net.status>>)),
              requests |-> <<request>>]
        ELSE [result |-> Ok([url |-> joined.val, body |-> net.body]),
              requests |-> <<request>>]

fetch_url(client, root_url, path, net) ==
    LET joined == url_join(root_url, path)
        request == [client |-> client, url |-> joined.val]
    IN  IF IsErr(joined)
        THEN [result |-> Err([variant |-> "Url", source |-> joined.err]),
              requests |-> <<>>]
        ELSE IF net.send = "error"
        THEN [result |-> Err(IoPath(path, <<"error sending HTTP request">>)),
              requests |-> <<request>>]
        ELSE IF StatusIsError(net.status)
        THEN [result |-> Err(IoPath(path, <<"bad HTTP status code", net.status>>)),
              requests |-> <<request>>]
        ELSE [result |-> Ok([url |-> joined.val, body |-> net.body]),
              requests |-> <<request>>]

\* A slip: the URL kept as parsed, with no trailing separator ensured.
new_client_no_slash(client, url) ==
    LET parsed == into_url(url)
    IN  IF IsErr(parsed) THEN Err([variant |-> "Reqwest", source |-> parsed.err])
        ELSE Ok([client |-> client, root_url |-> parsed.val])

\* HttpRepositoryClient::new_client
new_client(client, url) ==
    LET parsed == into_url(url)
        root_url == parsed.val
    IN  IF IsErr(parsed) THEN Err([variant |-> "Reqwest", source |-> parsed.err])
        ELSE Ok([client |-> client,
                 root_url |->
                     IF ~ends_with(root_url.path, "/")
                     THEN set_path(root_url, root_url.path \o <<"/">>)
                     ELSE root_url])

\* HttpRepositoryClient::new
new(url) == new_client("default", url)

DistsPrefix == <<"d", "i", "s", "t", "s", "/">>

\* A slip: the name taken as it is, slashes and all.
distribution_client_untrimmed(self, distribution) ==
    [root_client |-> self, distribution_path |-> DistsPrefix \o distribution]

\* HttpRepositoryClient::distribution_client
distribution_client(self, distribution) ==
    [root_client |-> self,
     distribution_path |-> DistsPrefix \o trim_matches(distribution, "/")]

\* HttpRepositoryClient::distribution_client_raw_path
distribution_client_raw_path(self, path) ==
    [root_client |-> self, distribution_path |-> trim_matches(path, "/")]

\* <HttpRepositoryClient as RepositoryReader>::get_path
HttpRepositoryClient_get_path(self, path, net) ==
    LET f == fetch_url(self.client, self.root_url, path, net)
    IN  [result |-> f.result,
         rootCalls |-> <<[client |-> self, path |-> path, result |-> f.result]>>,
         requests |-> f.requests]

\* A slip: the two parts glued with no trimming.
join_path_untrimmed(a, b) == a \o <<"/">> \o b

join_path(a, b) == trim_matches(a, "/") \o <<"/">> \o trim_start_matches(b, "/")

\* <HttpDistributionClient as RepositoryReader>::get_path
HttpDistributionClient_get_path(self, path, net) ==
    LET r == HttpRepositoryClient_get_path(
                 self.root_client, join_path(self.distribution_path, path), net)
    IN  [r EXCEPT !.result = IF IsErr(r.result) THEN Err(r.result.err)
                             ELSE Ok(r.result.val)]

----------------------------------------------------------------------------
(* The URLs, names, paths and network outcomes the clients are exercised   *)
(* on.  A root client never changes once built, so a reference to it is    *)
(* modelled by its value and roots is the set of the clients built.        *)

MaxRoots == 2

UrlInputs ==
    { <<"s", ":", "/", "/", "h">>,
      <<"s", ":", "/", "/", "h", "/", "a">>,
      <<"s", ":", "/", "/", "h", "/", "a", "/">>,
      <<"h", "/", "a">>,
      <<"s", ":", "/", "/">>,
      <<"s", ":", "a">> }

GivenClients == {"custom"}

NameInputs ==
    { <<"a">>, <<"/", "a", "/", "b", "/", "/">>, <<"a", "/", "b">>, <<"/">> }

PathInputs ==
    { <<"a">>, <<"/", "/", "a", "/">>, <<"a", "/", "b">>, <<"/", "/">> }

NetOutcomes ==
    { [send |-> "error", status |-> 0, body |-> "none"],
      [send |-> "ok", status |-> 200, body |-> "data"],
      [send |-> "ok", status |-> 404, body |-> "none"],
      [send |-> "ok", status |-> 500, body |-> "none"] }

NoCall == [op |-> "none"]

HttpInit ==
    /\ roots = {}
    /\ dist = None
    /\ release = None
    /\ flights = <<>>
    /\ httpCall = NoCall

\* A constructor call: the client, if any, joins the clients that exist.
Construct(op, url, r) ==
    /\ Cardinality(roots) < MaxRoots
    /\ roots' = IF IsOk(r) THEN roots \cup {r.val} ELSE roots
    /\ httpCall' = [op |-> op, url |-> url, result |-> r]
    /\ UNCHANGED <<dist, release, flights, exceptHttp>>

HttpNew(url) == Construct("new", url, new(url))

HttpNewClient(client, url) == Construct("new_client", url, new_client(client, url))

DistributionClient(self, distribution) ==
    /\ dist' = Some(distribution_client(self, distribution))
    /\ httpCall' = [op |-> "distribution_client", self |-> self,
                    arg |-> distribution]
    /\ UNCHANGED <<roots, release, flights, exceptHttp>>

DistributionClientRawPath(self, path) ==
    /\ dist' = Some(distribution_client_raw_path(self, path))
    /\ httpCall' = [op |-> "distribution_client_raw_path", self |-> self,
                    arg |-> path]
    /\ UNCHANGED <<roots, release, flights, exceptHttp>>

RootGetPath(self, path, net) ==
    /\ httpCall' = [op |-> "root.get_path", self |-> self, path |-> path,
                    net |-> net]
                   @@ HttpRepositoryClient_get_path(self, path, net)
    /\ UNCHANGED <<roots, dist, release, flights, exceptHttp>>

DistGetPath(path, net) ==
    /\ dist # None
    /\ httpCall' = [op |-> "dist.get_path", self |-> dist[1], path |-> path,
                    net |-> net]
                   @@ HttpDistributionClient_get_path(dist[1], path, net)
    /\ UNCHANGED <<roots, dist, release, flights, exceptHttp>>

HttpNext ==
    \/ \E url \in UrlInputs : HttpNew(url)
    \/ \E client \in GivenClients, url \in UrlInputs : HttpNewClient(client, url)
    \/ \E self \in roots, d \in NameInputs : DistributionClient(self, d)
    \/ \E self \in roots, d \in NameInputs : DistributionClientRawPath(self, d)
    \/ \E self \in roots, path \in PathInputs, net \in NetOutcomes :
           RootGetPath(self, path, net)
    \/ \E path \in PathInputs, net \in NetOutcomes : DistGetPath(path, net)

----------------------------------------------------------------------------
(* The release client (http.rs, HttpReleaseClient) and the InRelease       *)
(* document it is built from.  A document is a sequence of lines; a line   *)
(* is the armor's opening, an armor header, a blank line, a field of the   *)
(* payload, the opening of the signature, signature data, the armor's end, *)
(* or text that is none of these.                                          *)

Line(kind, name, value) == [kind |-> kind, name |-> name, value |-> value]

BeginSigned == Line("begin", "", "")

ArmorHeader == Line("header", "Hash", "SHA256")

BlankLine == Line("blank", "", "")

FieldLine(name, value) == Line("field", name, value)

BeginSignature == Line("signature", "", "")

SignatureData == Line("sigdata", "", "")

EndSignature == Line("end", "", "")

OtherText == Line("text", "", "")

\* The index of the first line of the given kind at or after from, or 0.
FirstLine(lines, kind, from) ==
    IF \E i \in from..Len(lines) : lines[i].kind = kind
    THEN CHOOSE i \in from..Len(lines) :
             /\ lines[i].kind = kind
             /\ \A j \in from..(i - 1) : lines[j].kind # kind
    ELSE 0

\* The signed payload of a clear-signed document: the lines after the blank
\* line that ends the armor headers and before the signature.
SignedPayload(lines) ==
    LET begin == FirstLine(lines, "begin", 1)
        blank == FirstLine(lines, "blank", begin + 1)
        signature == FirstLine(lines, "signature", blank + 1)
    IN  IF begin = 0 \/ blank = 0 \/ signature = 0
        THEN Err([variant |-> "NoSignedPayload"])
        ELSE Ok(SubSeq(lines, blank + 1, signature - 1))

\* The fields of the leading lines of a payload, up to the first line that
\* is not a field.
LeadingFields(payload) ==
    LET stop == IF \E i \in 1..Len(payload) : payload[i].kind # "field"
                THEN CHOOSE i \in 1..Len(payload) :
                         /\ payload[i].kind # "field"
                         /\ \A j \in 1..(i - 1) : payload[j].kind = "field"
                ELSE Len(payload) + 1
    IN  [i \in 1..(stop - 1) |->
             [name |-> payload[i].name, value |-> payload[i].value]]

\* The payload parsed as one control paragraph.
ParseReleaseParagraph(payload) ==
    IF payload = <<>> THEN Err([variant |-> "NoParagraph"])
    ELSE IF \E i \in 1..Len(payload) : payload[i].kind # "field"
    THEN Err([variant |-> "ControlParse"])
    ELSE Ok([paragraph |-> LeadingFields(payload)])

\* A slip: what was parsed before the offending line is kept as the file.
from_armored_reader_lenient(data) ==
    LET payload == SignedPayload(data)
    IN  IF IsErr(payload) THEN Ok([paragraph |-> <<>>])
        ELSE Ok([paragraph |-> LeadingFields(payload.val)])

\* ReleaseFile::from_armored_reader
from_armored_reader(data) ==
    LET payload == SignedPayload(data)
    IN  IF IsErr(payload) THEN payload ELSE ParseReleaseParagraph(payload.val)

\* IndexFileCompression::default_preferred_order
default_preferred_order == <<"Xz", "Zstd", "Gzip", "None">>

IndexFileCompression == {"Xz", "Zstd", "Gzip", "None"}

\* The conversion of a RepositoryReadError or a ReleaseError by `?`.
HttpErrorFrom(variant, e) == [variant |-> variant, source |-> e]

\* A slip: a manifest that does not parse is kept as far as it was read.
read_and_parse_keeping(self, fetched, read, data) ==
    LET parsed == from_armored_reader(data)
    IN  IF IsErr(fetched)
        THEN Err(HttpErrorFrom("RepositoryRead", fetched.err))
        ELSE IF read = "error"
        THEN Err(HttpErrorFrom("Io", "Other"))
        ELSE Ok([root_client |-> self.root_client,
                 distribution_path |-> self.distribution_path,
                 release |-> IF IsErr(parsed)
                             THEN from_armored_reader_lenient(data).val
                             ELSE parsed.val,
                 fetch_compression |-> Head(default_preferred_order)])

\* HttpDistributionClient::fetch_inrelease, after the fetch has answered.
read_and_parse(self, fetched, read, data) ==
    LET parsed == from_armored_reader(data)
    IN  IF IsErr(fetched)
        THEN Err(HttpErrorFrom("RepositoryRead", fetched.err))
        ELSE IF read = "error"
        THEN Err(HttpErrorFrom("Io", "Other"))
        ELSE IF IsErr(parsed)
        THEN Err(HttpErrorFrom("Release", parsed.err))
        ELSE Ok([root_client |-> self.root_client,
                 distribution_path |-> self.distribution_path,
                 release |-> parsed.val,
                 fetch_compression |-> Head(default_preferred_order)])

InReleasePath == <<"I", "n", "R", "e", "l", "e", "a", "s", "e">>

\* A slip: the release client bound to the root with no distribution path.
fetch_inrelease_unbound(self, net, read, data) ==
    LET r == HttpDistributionClient_get_path(self, InReleasePath, net)
    IN  [r EXCEPT !.result =
             read_and_parse([self EXCEPT !.distribution_path = <<>>],
                            r.result, read, data)]

\* HttpDistributionClient::fetch_inrelease
fetch_inrelease(self, net, read, data) ==
    LET r == HttpDistributionClient_get_path(self, InReleasePath, net)
    IN  [r EXCEPT !.result = read_and_parse(self, r.result, read, data)]

\* <HttpReleaseClient as ReleaseReader>::get_path
HttpReleaseClient_get_path(self, path, net) ==
    LET r == HttpRepositoryClient_get_path(
                 self.root_client, join_path(self.distribution_path, path), net)
    IN  [r EXCEPT !.result = IF IsErr(r.result) THEN Err(r.result.err)
                             ELSE Ok(r.result.val)]

release_file(self) == self.release

preferred_compression(self) == self.fetch_compression

\* A slip: the client built anew around the setting, its manifest lost.
set_preferred_compression_anew(self, compression) ==
    [root_client |-> self.root_client,
     distribution_path |-> self.distribution_path,
     release |-> [paragraph |-> <<>>],
     fetch_compression |-> compression]

set_preferred_compression(self, compression) ==
    [self EXCEPT !.fetch_compression = compression]

----------------------------------------------------------------------------
(* The release client in use: one root client, the distribution clients    *)
(* derived from it, and the release client the last fetch_inrelease gave.  *)

RootUrls == { <<"s", ":", "/", "/", "h">>, <<"s", ":", "/", "/", "h", "/", "a">> }

DistributionNames == { <<"a">>, <<"/">> }

ReleasePaths == { <<"a">>, <<"/", "/", "a", "/">>, <<"/", "/">> }

FetchNets ==
    { [send |-> "error", status |-> 0, body |-> "none"],
      [send |-> "ok", status |-> 200, body |-> "data"],
      [send |-> "ok", status |-> 404, body |-> "none"] }

ReadOutcomes == {"ok", "error"}

Signed(payload) ==
    <<BeginSigned, ArmorHeader, BlankLine>> \o payload
        \o <<BeginSignature, SignatureData, EndSignature>>

InReleaseBodies ==
    { Signed(<<FieldLine("Suite", "stable"), FieldLine("Codename", "x")>>),
      <<OtherText>> \o Signed(<<FieldLine("Suite", "testing")>>) \o <<OtherText>>,
      Signed(<<FieldLine("Suite", "stable"), OtherText>>),
      <<FieldLine("Suite", "stable")>> }

ReleaseInit ==
    /\ roots \in { {new(url).val} : url \in RootUrls }
    /\ dist = None
    /\ release = None
    /\ flights = <<>>
    /\ httpCall = NoCall

\* The last call was a fetch_inrelease that failed.
FetchFailedLast == httpCall.op = "fetch_inrelease" /\ IsErr(httpCall.result)

FetchInRelease(net, read, data) ==
    /\ dist # None
    /\ \E f \in {fetch_inrelease(dist[1], net, read, data)} :
           /\ release' = IF IsOk(f.result) THEN Some(f.result.val) ELSE release
           /\ httpCall' = [op |-> "fetch_inrelease", self |-> dist[1],
                           path |-> InReleasePath, net |-> net, read |-> read,
                           data |-> data, after_failure |-> FetchFailedLast]
                          @@ f
    /\ UNCHANGED <<roots, dist, flights, exceptHttp>>

ReleaseGetPath(path, net) ==
    /\ release # None
    /\ httpCall' = [op |-> "release.get_path", self |-> release[1],
                    path |-> path, net |-> net]
                   @@ HttpReleaseClient_get_path(release[1], path, net)
    /\ UNCHANGED <<roots, dist, release, flights, exceptHttp>>

ReleaseFileGet ==
    /\ release # None
    /\ httpCall' = [op |-> "release_file", self |-> release[1],
                    result |-> release_file(release[1])]
    /\ UNCHANGED <<roots, dist, release, flights, exceptHttp>>

PreferredCompression ==
    /\ release # None
    /\ httpCall' = [op |-> "preferred_compression", self |-> release[1],
                    result |-> preferred_compression(release[1])]
    /\ UNCHANGED <<roots, dist, release, flights, exceptHttp>>

SetPreferredCompression(compression) ==
    /\ release # None
    /\ release' = Some(set_preferred_compression(release[1], compression))
    /\ httpCall' = [op |-> "set_preferred_compression", self |-> release[1],
                    arg |-> compression]
    /\ UNCHANGED <<roots, dist, flights, exceptHttp>>

ReleaseNext ==
    \/ \E self \in roots, d \in DistributionNames : DistributionClient(self, d)
    \/ \E self \in roots, d \in DistributionNames :
           DistributionClientRawPath(self, d)
    \/ \E self \in roots, path \in ReleasePaths, net \in FetchNets :
           RootGetPath(self, path, net)
    \/ \E path \in ReleasePaths, net \in FetchNets : DistGetPath(path, net)
    \/ \E net \in FetchNets, read \in ReadOutcomes, data \in InReleaseBodies :
           FetchInRelease(net, read, data)
    \/ \E path \in ReleasePaths, net \in FetchNets : ReleaseGetPath(path, net)
    \/ ReleaseFileGet
    \/ PreferredCompression
    \/ \E c \in IndexFileCompression : SetPreferredCompression(c)

----------------------------------------------------------------------------
(* Concurrent get_path calls.  A call is a future: created by the call,    *)
(* it joins its URL and sends its request when first polled, is suspended  *)
(* until the response arrives, and is done when it has its result.  The    *)
(* future borrows its client (&self) until it is dropped.                  *)

MaxFlights == 2

GetPathOps == {"root.get_path", "dist.get_path", "release.get_path"}

FetchPaths == { <<"a">>, <<"/", "/">> }

NoNet == [send |-> "none", status |-> 0, body |-> "none"]

GoodNet == [send |-> "ok", status |-> 200, body |-> "data"]

FetchInit ==
    /\ \E root \in {new(<<"s", ":", "/", "/", "h", "/", "a">>).val} :
           \E name \in DistributionNames :
               \E d \in {distribution_client_raw_path(root, name)} :
                   /\ roots = {root}
                   /\ dist = Some(d)
                   /\ release = Some(fetch_inrelease(d, GoodNet, "ok",
                                    Signed(<<FieldLine("Suite", "stable")>>)
                                ).result.val)
    /\ flights = <<>>
    /\ httpCall = NoCall

\* The client a call of the given kind is made on.
ClientOf(op) ==
    IF op = "root.get_path" THEN CHOOSE root \in roots : TRUE
    ELSE IF op = "dist.get_path" THEN dist[1]
    ELSE release[1]

\* A slip: one path buffer for all the calls, holding the path given last.
shared_path(fs, i) == fs[Len(fs)].path

\* The path argument of call i: each future owns its arguments.
own_path(fs, i) == fs[i].path

\* The arguments get_path hands to fetch_url: the client's fields as they
\* are when the future is polled.
fetch_url_args(op, self, path) ==
    IF op = "root.get_path"
    THEN [client |-> self.client, root_url |-> self.root_url, path |-> path]
    ELSE [client |-> self.root_client.client,
          root_url |-> self.root_client.root_url,
          path |-> join_path(self.distribution_path, path)]

\* A fetch_url call with its arguments bound.
fetch_with(args, net) == fetch_url(args.client, args.root_url, args.path, net)

\* The future is in flight: created or suspended, with its borrow held.
InFlight(f) == f.pc # "done"

Borrowed(op) == \E i \in 1..Len(flights) : flights[i].op = op

StartGetPath(op, path) ==
    /\ Len(flights) < MaxFlights
    /\ flights' = Append(flights, [op |-> op, path |-> path, pc |-> "created",
                                   args |-> None, net |-> NoNet,
                                   requests |-> <<>>, result |-> None])
    /\ UNCHANGED <<roots, dist, release, httpCall, exceptHttp>>

\* The first poll of call i: up to `.send().await`.
Poll(i) ==
    /\ flights[i].pc = "created"
    /\ \E args \in {fetch_url_args(flights[i].op, ClientOf(flights[i].op),
                                   own_path(flights, i))} :
           \E f \in {fetch_with(args, NoNet)} :
               flights' = [flights EXCEPT ![i] =
                   IF f.requests = <<>>
                   THEN [@ EXCEPT !.pc = "done", !.args = Some(args),
                                  !.result = Some(f.result)]
                   ELSE [@ EXCEPT !.pc = "sent", !.args = Some(args),
                                  !.requests = f.requests]]
    /\ UNCHANGED <<roots, dist, release, httpCall, exceptHttp>>

\* The response to the request of call i arrives and the call resumes.
Respond(i, net) ==
    /\ flights[i].pc = "sent"
    /\ flights' = [flights EXCEPT ![i] =
           [@ EXCEPT !.pc = "done", !.net = net,
                     !.result = Some(fetch_with(flights[i].args[1], net).result)]]
    /\ UNCHANGED <<roots, dist, release, httpCall, exceptHttp>>

\* The caller takes the result of call i and drops the future.
Finish(i) ==
    /\ flights[i].pc = "done"
    /\ flights' = [j \in 1..(Len(flights) - 1) |->
                      IF j < i THEN flights[j] ELSE flights[j + 1]]
    /\ UNCHANGED <<roots, dist, release, httpCall, exceptHttp>>

\* set_preferred_compression takes &mut self: no future borrows the client.
SetBetweenFetches(compression) ==
    /\ ~Borrowed("release.get_path")
    /\ SetPreferredCompression(compression)

FetchNext ==
    \/ \E op \in GetPathOps, path \in FetchPaths : StartGetPath(op, path)
    \/ \E i \in 1..Len(flights) : Poll(i)
    \/ \E i \in 1..Len(flights), net \in FetchNets : Respond(i, net)
    \/ \E i \in 1..Len(flights) : Finish(i)
    \/ \E c \in IndexFileCompression : SetBetweenFetches(c)

----------------------------------------------------------------------------------------------------------------------------------------
(* PackageVersion ordering (package_version.rs), as dpkg orders versions.  *)

Letters == {"a", "b", "c", "d", "r", "x"}

CodePoint(c) ==
    CASE c = "+" -> 43 [] c = "-" -> 45 [] c = "." -> 46 [] c = ":" -> 58
      [] c = "a" -> 97 [] c = "b" -> 98 [] c = "c" -> 99 [] c = "d" -> 100
      [] c = "r" -> 114 [] c = "x" -> 120 [] c = "~" -> 126
      [] OTHER -> 32

\* A slip: '~' ordered as any other character that is not a letter.
CharOrderPlain(c) == IF c \in Letters THEN CodePoint(c) ELSE CodePoint(c) + 256

\* '~' sorts before the end of the text, letters after it, the rest last.
CharOrder(c) ==
    IF c = "~" THEN -1
    ELSE IF c \in Letters THEN CodePoint(c)
    ELSE CodePoint(c) + 256

OrderAt(s, i) == IF i <= Len(s) THEN CharOrder(s[i]) ELSE 0

Sign(n) == IF n < 0 THEN -1 ELSE IF n > 0 THEN 1 ELSE 0

Max(m, n) == IF m >= n THEN m ELSE n

\* Two runs of non-digits, compared character by character.
compare_non_digit(a, b) ==
    LET differs == {i \in 1..Max(Len(a), Len(b)) : OrderAt(a, i) # OrderAt(b, i)}
        first == CHOOSE i \in differs : \A j \in differs : i <= j
    IN  IF differs = {} THEN 0 ELSE Sign(OrderAt(a, first) - OrderAt(b, first))

\* The element of a set of one.
Only(S) == CHOOSE x \in S : TRUE

\* One component (upstream version or revision) against another, run by run;
\* what is left of the two texts is worked out once for the next round.
RECURSIVE compare_component(_, _)
compare_component(a, b) ==
    LET na == TakeWhileNotIn(a, Digits)
        nb == TakeWhileNotIn(b, Digits)
        ra == SubSeq(a, Len(na) + 1, Len(a))
        rb == SubSeq(b, Len(nb) + 1, Len(b))
        da == TakeWhileIn(ra, Digits)
        db == TakeWhileIn(rb, Digits)
        c == compare_non_digit(na, nb)
    IN  IF a = <<>> /\ b = <<>> THEN 0
        ELSE IF c # 0 THEN c
        ELSE IF DecimalValue(da) # DecimalValue(db)
        THEN Sign(DecimalValue(da) - DecimalValue(db))
        ELSE Only({compare_component(x, y) :
                       x \in {SubSeq(ra, Len(da) + 1, Len(ra))},
                       y \in {SubSeq(rb, Len(db) + 1, Len(rb))}})

RevisionText(v) == IF v.debian_revision = None THEN <<>> ELSE v.debian_revision[1]

\* Ordering::then: the first comparison unless it is Equal.
then(c, d) == IF c # 0 THEN c ELSE d

\* <PackageVersion as Ord>::cmp: -1, 0 or 1
compare_versions(a, b) ==
    IF a.epoch # b.epoch THEN Sign(a.epoch - b.epoch)
    ELSE then(compare_component(a.upstream_version, b.upstream_version),
              compare_component(RevisionText(a), RevisionText(b)))

\* Whether the outcome c of a comparison is what relation asks for.
relation_holds(relation, c) ==
    CASE relation = <<"<", "<">> -> c < 0
      [] relation = <<"<", "=">> -> c <= 0
      [] relation = <<"=">> -> c = 0
      [] relation = <<">", "=">> -> c >= 0
      [] relation = <<">", ">">> -> c > 0

\* Whether the version v satisfies (relation, other).
satisfies_relation(v, relation, other) ==
    relation_holds(relation, compare_versions(v, other))

----------------------------------------------------------------------------
(* The versions the ordering is exercised on.                              *)

\* The names of the versions compared: a, b and c.
Operands == {"a", "b", "c"}

VersionTexts ==
    { <<"1", ".", "0", "~", "r", "c", "1">>, <<"1", ".", "0">>,
      <<"1", ".", "0", "-", "1">>, <<"1", ".", "0", "-", "2">>,
      <<"2", ":", "1", ".", "0", "-", "1">>,
      <<"1", ".", "0", "0">>, <<"0", ":", "1", ".", "0">>, <<"1", ".", "0", "-", "0">>,
      <<"1", ".", "0", "a">>, <<"1", ".", "0", "+">>, <<"1", ".", "a">> }

\* The version a text of VersionTexts stands for.
Parsed(text) == PackageVersionParse(text).val

NoComparison == [op |-> "none"]

OrdInit ==
    /\ versions \in [Operands -> {Parsed(t) : t \in VersionTexts}]
    /\ cmpCall = NoComparison

\* versions[i].cmp(&versions[j])
Compare(i, j) ==
    /\ cmpCall' = [op |-> "cmp", left |-> i, right |-> j,
                   ordering |-> compare_versions(versions[i], versions[j])]
    /\ UNCHANGED <<versions, exceptOrd>>

OrdNext == \E i, j \in Operands : Compare(i, j)

----------------------------------------------------------------------------
(* DependencyResolver (dependency_resolution.rs), driven by the test of    *)
(* repository/http.rs: a pool of binary packages, direct and transitive    *)
(* dependency queries.                                                     *)

\* The relation kinds of a binary package (BinaryDependency).
BinaryDependency == {"Depends", "PreDepends", "Recommends", "Suggests", "Enhances"}

\* The dependency list of one relation kind, as the accessor returns it.
relation_list(control, kind) ==
    CASE kind = "Depends" -> depends(control)
      [] kind = "PreDepends" -> pre_depends(control)
      [] kind = "Recommends" -> recommends(control)
      [] kind = "Suggests" -> suggests(control)
      [] kind = "Enhances" -> enhances(control)

\* What the resolver indexes of one package when the pool is loaded: the
\* control file and what its accessors return.
load_binary_package(control) ==
    [control |-> control,
     package |-> package(control),
     version_str |-> version_str(control),
     version |-> version(control),
     architecture |-> architecture(control),
     relations |-> [kind \in BinaryDependency |-> relation_list(control, kind)]]

\* load_binary_packages: the pool, in load order.
load_binary_packages(controls) ==
    [i \in 1..Len(controls) |-> load_binary_package(controls[i])]

\* The (name, version, architecture) identity of a package.
package_identity(pkg) ==
    <<pkg.package.val, pkg.version_str.val, pkg.architecture.val>>

\* Whether the parsed version v of a candidate satisfies the constraint.
version_qualifies(constraint, v) ==
    \/ constraint = None
    \/ /\ IsOk(v)
       /\ satisfies_relation(v.val, constraint[1].relation, constraint[1].version)

\* Whether a candidate called name, of architecture arch, is the package
\* the alternative names.
names_candidate(alt, name, arch) ==
    /\ IsOk(name) /\ name.val = alt.package
    /\ \/ alt.arch = None
       \/ alt.arch[1] = <<"a", "n", "y">>
       \/ (IsOk(arch) /\ arch.val = alt.arch[1])

\* A slip: a candidate qualifies by its name alone.
candidate_any_version(alt, cand) ==
    names_candidate(alt, cand.package, cand.architecture)

\* Whether a pool package is a candidate for an alternative.
candidate_qualifies(alt, cand) ==
    /\ names_candidate(alt, cand.package, cand.architecture)
    /\ version_qualifies(alt.constraint, cand.version)

\* A slip: an alternative answered by any package of that name.
RECURSIVE resolve_alternative_any_version(_, _)
resolve_alternative_any_version(packages, alt) ==
    IF packages = <<>> THEN None
    ELSE IF candidate_any_version(alt, Head(packages)) THEN Some(Head(packages))
    ELSE resolve_alternative_any_version(Tail(packages), alt)

\* The first package of the pool, in load order, that qualifies.
RECURSIVE resolve_alternative(_, _)
resolve_alternative(packages, alt) ==
    IF packages = <<>> THEN None
    ELSE IF candidate_qualifies(alt, Head(packages)) THEN Some(Head(packages))
    ELSE resolve_alternative(Tail(packages), alt)

\* Option::or: the first of two options that holds something.
or(first, second) == IF first # None THEN first ELSE second

\* The first alternative, in source order, that resolves.
RECURSIVE resolve_expression(_, _)
resolve_expression(packages, expression) ==
    IF expression = <<>> THEN None
    ELSE Only({or(first, resolve_expression(packages, Tail(expression))) :
                   first \in {resolve_alternative(packages, Head(expression))}})

\* An expression with what it resolved to, None when no alternative resolves.
resolution(expression, resolved) == [expression |-> expression, resolved |-> resolved]

\* The entries from an unresolved one on are left out.
stop_at_unresolved(entry, rest) ==
    IF entry.resolved = None THEN <<entry>> ELSE <<entry>> \o rest

\* A slip: the query gives up at the first expression that does not resolve.
RECURSIVE resolve_list_stopping(_, _)
resolve_list_stopping(packages, list) ==
    IF list = <<>> THEN <<>>
    ELSE stop_at_unresolved(
             resolution(Head(list), resolve_expression(packages, Head(list))),
             resolve_list_stopping(packages, Tail(list)))

\* Every expression of the list with what it resolved to.
RECURSIVE resolve_list(_, _)
resolve_list(packages, list) ==
    IF list = <<>> THEN <<>>
    ELSE <<resolution(Head(list), resolve_expression(packages, Head(list)))>>
         \o resolve_list(packages, Tail(list))

\* The answer for a relation field rel: absent, malformed or parsed.
resolve_relation(packages, rel) ==
    IF rel = None THEN Ok(<<>>)
    ELSE IF IsErr(rel[1]) THEN rel[1]
    ELSE Ok(resolve_list(packages, rel[1].val))

\* find_direct_binary_package_dependencies
find_direct_dependencies(packages, pkg, kind) ==
    resolve_relation(packages, pkg.relations[kind])

\* The packages a direct query resolved, in order.
RECURSIVE resolved_packages(_)
resolved_packages(entries) ==
    IF entries = <<>> THEN <<>>
    ELSE Head(entries).resolved \o resolved_packages(Tail(entries))

\* The `?` of the loop over the kinds: the first failure, or what the kind
\* resolved before what the later kinds resolved.
extend(h, t) ==
    IF IsErr(h) THEN h
    ELSE IF IsErr(t) THEN t
    ELSE Ok(resolved_packages(h.val) \o t.val)

\* What the later kinds resolved before what the kind resolved.
extend_before(h, t) ==
    IF IsErr(h) THEN h
    ELSE IF IsErr(t) THEN t
    ELSE Ok(t.val \o resolved_packages(h.val))

\* A slip: the kinds are gone through from the last to the first.
RECURSIVE direct_over_kinds_reversed(_, _, _)
direct_over_kinds_reversed(packages, pkg, kinds) ==
    IF kinds = <<>> THEN Ok(<<>>)
    ELSE Only({extend_before(h, t) :
                   h \in {find_direct_dependencies(packages, pkg, Head(kinds))},
                   t \in {direct_over_kinds_reversed(packages, pkg, Tail(kinds))}})

\* The direct dependencies of pkg over all the kinds, kind by kind; an error
\* when one of the lists does not parse.  Each kind is resolved once.
RECURSIVE direct_over_kinds(_, _, _)
direct_over_kinds(packages, pkg, kinds) ==
    IF kinds = <<>> THEN Ok(<<>>)
    ELSE Only({extend(h, t) :
                   h \in {find_direct_dependencies(packages, pkg, Head(kinds))},
                   t \in {direct_over_kinds(packages, pkg, Tail(kinds))}})

\* The traversal state once dependency is marked, paired with source and queued.
enqueued(state, source, dependency) ==
    [queue |-> Append(state.queue, dependency),
     visited |-> state.visited \cup {package_identity(dependency)},
     deps |-> Append(state.deps, [package |-> dependency, source |-> source])]

\* A slip: every package found is taken, visited before or not.
RECURSIVE enqueue_all(_, _, _)
enqueue_all(state, source, found) ==
    IF found = <<>> THEN state
    ELSE Only({enqueue_all(next, source, Tail(found)) :
                   next \in {enqueued(state, source, Head(found))}})

\* A slip: the source recorded is the package found, not the one that
\* depends on it.
RECURSIVE enqueue_self_source(_, _, _)
enqueue_self_source(state, source, found) ==
    IF found = <<>> THEN state
    ELSE Only({enqueue_self_source(next, source, Tail(found)) :
                   next \in {IF package_identity(Head(found)) \in state.visited
                             THEN state
                             ELSE enqueued(state, Head(found), Head(found))}})

\* The packages found for source, one by one: each one not visited yet is
\* marked, paired with source and queued.
RECURSIVE enqueue_new(_, _, _)
enqueue_new(state, source, found) ==
    IF found = <<>> THEN state
    ELSE Only({enqueue_new(next, source, Tail(found)) :
                   next \in {IF package_identity(Head(found)) \in state.visited
                             THEN state
                             ELSE enqueued(state, source, Head(found))}})

----------------------------------------------------------------------------
(* The pools and queries the resolver is exercised on.                     *)

MaxKinds == 2

Kinds == {"Depends", "PreDepends", "Recommends"}

KindLists ==
    {k \in UNION {[1..n -> Kinds] : n \in 1..MaxKinds} :
        \A i, j \in 1..Len(k) : i # j => k[i] # k[j]}

Package(name, ver, relations) ==
    <<Field("Package", name), Field("Version", ver), Field("Architecture", <<"x">>)>>
    \o relations

V10 == <<"1", ".", "0">>

V21 == <<"2", ".", "1">>

AtLeast20(name) == <<name, " ", "(", ">", "=", " ", "2", ".", "0", ")">>

DependsOfA ==
    { <<"b">>, AtLeast20("b"), AtLeast20("b") \o <<" ", "|", " ", "c">>,
      <<"d", ",", " ", "b">>, <<"b", " ", "(">> }

ChoicesOfA ==
    {<<Package(<<"a">>, V10, <<Field("Depends", d)>> \o pre)>> :
        d \in DependsOfA, pre \in {<<>>, <<Field("Pre-Depends", <<"c">>)>>}}

ChoicesOfB10 == { <<>>, <<Package(<<"b">>, V10, <<>>)>> }

ChoicesOfB21 ==
    { <<>>, <<Package(<<"b">>, V21, <<Field("Depends", <<"a">>)>>)>>,
      <<Package(<<"b">>, V21, <<Field("Depends", <<"c">>)>>)>> }

ChoicesOfC ==
    { <<>>, <<Package(<<"c">>, V10, <<Field("Recommends", <<"b">>)>>)>>,
      <<Package(<<"c">>, V10,
                <<Field("Depends", <<"b", " ", "(", "<", "<", "2", ")">>)>>)>> }

Pools ==
    {a \o b10 \o b21 \o c :
        a \in ChoicesOfA, b10 \in ChoicesOfB10, b21 \in ChoicesOfB21,
        c \in ChoicesOfC}

NoQuery == [op |-> "none"]

ResInit ==
    /\ pool \in {load_binary_packages(controls) : controls \in Pools}
    /\ resCall = NoQuery
    /\ queue = <<>>
    /\ visited = {}
    /\ deps = <<>>
    /\ resPc = "idle"

\* find_direct_binary_package_dependencies(pool[i], kind)
FindDirect(i, kind) ==
    /\ resPc # "running"
    /\ resCall' = [op |-> "direct", pkg |-> pool[i], kind |-> kind,
                   result |-> find_direct_dependencies(pool, pool[i], kind)]
    /\ queue' = <<>> /\ visited' = {} /\ deps' = <<>>
    /\ resPc' = "done"
    /\ UNCHANGED <<pool, exceptRes>>

\* find_transitive_binary_package_dependencies(pool[i], kinds): the start.
\* When the query that ended just before was the same one, what it returned
\* is kept in before, for the two results to be compared.
StartTransitive(i, kinds) ==
    /\ resPc # "running"
    /\ resCall' = [op |-> "transitive", root |-> pool[i], kinds |-> kinds,
                   before |-> IF /\ resPc = "done" /\ resCall.op = "transitive"
                                 /\ resCall.root = pool[i] /\ resCall.kinds = kinds
                              THEN Some(deps) ELSE None]
    /\ queue' = <<pool[i]>>
    /\ visited' = {package_identity(pool[i])}
    /\ deps' = <<>>
    /\ resPc' = "running"
    /\ UNCHANGED <<pool, exceptRes>>

\* The traversal takes the next package off the queue and expands it.
Visit ==
    /\ resPc = "running"
    /\ queue # <<>>
    /\ \E found \in {direct_over_kinds(pool, Head(queue), resCall.kinds)} :
           IF IsErr(found)
           THEN /\ resPc' = "failed"
                /\ queue' = <<>>
                /\ UNCHANGED <<visited, deps>>
           ELSE \E next \in {enqueue_new([queue |-> Tail(queue),
                                          visited |-> visited, deps |-> deps],
                                         Head(queue), found.val)} :
                    /\ queue' = next.queue
                    /\ visited' = next.visited
                    /\ deps' = next.deps
                    /\ resPc' = IF next.queue = <<>> THEN "done" ELSE "running"
    /\ UNCHANGED <<pool, resCall, exceptRes>>

ResNext ==
    \/ \E i \in 1..Len(pool), kind \in Kinds : FindDirect(i, kind)
    \/ \E i \in 1..Len(pool), kinds \in KindLists : StartTransitive(i, kinds)
    \/ Visit

----------------------------------------------------------------------------
(* MainPythonInterpreter (pyembed/pyinterp.rs).  self is the object's      *)
(* fields; world is the state of the embedded Python that the object's     *)
(* methods act on: how often each part of the initialization was executed  *)
(* and whether a panic ended the program.  A machine is the two together.  *)
(* The Python handle is the token by which the code holds the GIL.         *)

MaxTally == 2

\* One more execution counted, up to the bound.
Tally(n) == IF n < MaxTally THEN n + 1 ELSE n

PythonConfigs ==
    [standard_io : BOOLEAN, use_custom_importlib : BOOLEAN, argvb : BOOLEAN]

RunModes == 0..3

Machine(self, world) == [self |-> self, world |-> world]

\* MainPythonInterpreter::new
MainPythonInterpreter_new(config) ==
    [config |-> config, init_run |-> FALSE, gil |-> None, py |-> None]

NoPython ==
    [settings |-> 0, inittab |-> 0, initialize |-> 0, argv |-> 0, argvb |-> 0,
     frozen |-> 0, panicked |-> FALSE]

\* A slip: the guard is looked at instead of the handle.
release_gil_by_guard(m) ==
    IF m.self.gil # None
    THEN [m EXCEPT !.self.py = None, !.self.gil = None]
    ELSE m

\* MainPythonInterpreter::release_gil
release_gil(m) ==
    IF m.self.py # None
    THEN [m EXCEPT !.self.py = None, !.self.gil = None]
    ELSE m

\* MainPythonInterpreter::acquire_gil; the handle returned is self.py.
acquire_gil(m) ==
    IF m.self.py # None THEN m
    ELSE [m EXCEPT !.self.gil = Some("GILGuard"), !.self.py = Some("Python")]

Panicked(m) == [m EXCEPT !.world.panicked = TRUE]

\* init, from Py_Initialize on: the handle, init_run, sys.argv, sys.argvb
\* and the frozen marker; fate names the PySys_SetObject call that fails.
initialize_and_set(m, fate) ==
    LET up == [m EXCEPT !.world.initialize = Tally(@),
                        !.self.py = Some("Python"),
                        !.self.init_run = TRUE]
        argv == [up EXCEPT !.world.argv = Tally(@)]
        argvb == IF m.self.config.argvb
                 THEN [argv EXCEPT !.world.argvb = Tally(@)] ELSE argv
    IN  IF fate = "argv" THEN Panicked(up)
        ELSE IF fate = "argvb" /\ m.self.config.argvb THEN Panicked(argv)
        ELSE IF fate = "frozen" THEN Panicked(argvb)
        ELSE [argvb EXCEPT !.world.frozen = Tally(@)]

\* init past its init_run test: the global settings, then the rest.
initialize(m, fate) ==
    LET set == [m EXCEPT
                !.world.settings = Tally(@),
                !.world.inittab = IF m.self.config.use_custom_importlib
                                  THEN Tally(@) ELSE @]
    IN  IF fate = "encoding" /\ m.self.config.standard_io THEN Panicked(set)
        ELSE initialize_and_set(set, fate)

\* A slip: no test of init_run.
init_always(m, fate) == initialize(m, fate)

\* A slip: an initialized interpreter is returned as it is.
init_without_acquire(m, fate) ==
    IF m.self.init_run THEN m ELSE initialize(m, fate)

\* MainPythonInterpreter::init
init(m, fate) ==
    IF m.self.init_run THEN acquire_gil(m) ELSE initialize(m, fate)

\* What holds at a call of the Python API or the execution of Python code.
Use(m) ==
    [init_run |-> m.self.init_run, initialized |-> m.world.initialize > 0,
     py |-> m.self.py # None]

Ran(m, used, result) == [m |-> m, used |-> used, result |-> result]

\* The body of a run_* method after its call of init.
with_python(i, outcome) ==
    IF i.world.panicked THEN Ran(i, <<>>, "panic")
    ELSE Ran(i, <<Use(i)>>, outcome)

\* MainPythonInterpreter::run_module_as_main
run_module_as_main(m, fate, outcome) == with_python(init(m, fate), outcome)

\* MainPythonInterpreter::run_repl
run_repl(m, fate, outcome) == with_python(init(m, fate), outcome)

\* MainPythonInterpreter::run_code
run_code(m, fate, outcome) == with_python(init(m, fate), outcome)

\* The match on RUN_MODE in run.
run_mode(i, mode, outcome) ==
    IF i.world.panicked THEN Ran(i, <<>>, "panic")
    ELSE IF mode = 0 THEN run_repl(i, "ok", outcome)
    ELSE IF mode = 1 THEN run_module_as_main(i, "ok", outcome)
    ELSE IF mode = 2 THEN run_code(i, "ok", outcome)
    ELSE Ran(Panicked(i), <<>>, "panic")

\* MainPythonInterpreter::run
run(m, mode, fate, outcome) == run_mode(init(m, fate), mode, outcome)

\* MainPythonInterpreter::print_err
print_err(m) == Ran(acquire_gil(m), <<Use(acquire_gil(m))>>, "printed")

\* The match on the result of run in run_and_handle_error.
handle_error(r) ==
    IF r.result = "Err"
    THEN Ran(print_err(r.m).m, r.used \o print_err(r.m).used, "printed")
    ELSE r

\* MainPythonInterpreter::run_and_handle_error
run_and_handle_error(m, mode, fate, outcome) ==
    handle_error(run(m, mode, fate, outcome))

----------------------------------------------------------------------------
(* One MainPythonInterpreter in use.                                       *)

Fates == {"ok", "encoding", "argv", "argvb", "frozen"}

Outcomes == {"Ok", "Err"}

NoPyCall == [op |-> "none", used |-> <<>>, result |-> "none"]

PyInit ==
    /\ interp \in {MainPythonInterpreter_new(config) : config \in PythonConfigs}
    /\ python = NoPython
    /\ build \in [RUN_MODE : RunModes]
    /\ pyCall = NoPyCall

\* A method call that returns r; after a panic nothing is called any more.
PyReturns(op, r) ==
    /\ ~python.panicked
    /\ interp' = r.m.self
    /\ python' = r.m.world
    /\ pyCall' = [op |-> op, used |-> r.used, result |-> r.result]
    /\ UNCHANGED <<build, exceptPy>>

Here == Machine(interp, python)

CallInit(fate) ==
    \E i \in {init(Here, fate)} :
        PyReturns("init", Ran(i, <<>>, IF i.world.panicked THEN "panic" ELSE "py"))

CallRun(fate, outcome) ==
    PyReturns("run", run(Here, build.RUN_MODE, fate, outcome))

CallRunAndHandleError(fate, outcome) ==
    PyReturns("run_and_handle_error",
              run_and_handle_error(Here, build.RUN_MODE, fate, outcome))

CallRunCode(fate, outcome) ==
    PyReturns("run_code", run_code(Here, fate, outcome))

CallRunModuleAsMain(fate, outcome) ==
    PyReturns("run_module_as_main", run_module_as_main(Here, fate, outcome))

CallRunRepl(fate, outcome) ==
    PyReturns("run_repl", run_repl(Here, fate, outcome))

CallAcquireGil == PyReturns("acquire_gil", Ran(acquire_gil(Here), <<>>, "py"))

CallReleaseGil == PyReturns("release_gil", Ran(release_gil(Here), <<>>, "unit"))

PyNext ==
    \/ \E fate \in Fates : CallInit(fate)
    \/ \E fate \in Fates, outcome \in Outcomes : CallRun(fate, outcome)
    \/ \E fate \in Fates, outcome \in Outcomes :
           CallRunAndHandleError(fate, outcome)
    \/ \E fate \in Fates, outcome \in Outcomes : CallRunCode(fate, outcome)
    \/ \E fate \in Fates, outcome \in Outcomes :
           CallRunModuleAsMain(fate, outcome)
    \/ \E fate \in Fates, outcome \in Outcomes : CallRunRepl(fate, outcome)
    \/ CallAcquireGil
    \/ CallReleaseGil

----------------------------------------------------------------------------
(* The whole life of one MainPythonInterpreter: public calls, then drop.   *)
(* The world also holds the environment variables, the foreign calls made  *)
(* so far (ffi) and whether the value was dropped.                         *)

MaxFfi == 3

\* std::env::var: Ok only for a variable that is set to valid Unicode.
env_var(env, key) ==
    IF env[key] = "unicode" THEN Ok("path")
    ELSE IF env[key] = "unset" THEN Err("NotPresent")
    ELSE Err("NotUnicode")

\* The foreign calls a step from before to after has made: Py_Initialize
\* where init initialized, GILGuard::acquire where acquire_gil took a guard.
Events(before, after) ==
    (IF after.world.initialize > before.world.initialize
     THEN <<"Py_Initialize">> ELSE <<>>)
    \o (IF before.self.gil = None /\ after.self.gil # None
        THEN <<"GILGuard::acquire">> ELSE <<>>)

Noted(before, after) ==
    [after EXCEPT !.world.ffi = @ \o Events(before, after)]

\* write_modules_to_directory: every step of it is an expect, so it writes
\* the file or panics.
write_modules_to_directory(m, fate) ==
    IF fate = "panic"
    THEN Panicked([m EXCEPT !.world.ffi = Append(@, "panic in write_modules")])
    ELSE [m EXCEPT !.world.ffi =
              Append(@, IF m.self.py # None THEN "write_modules"
                        ELSE "write_modules without the GIL")]

Py_FinalizeEx(m) == [m EXCEPT !.world.ffi = Append(@, "Py_FinalizeEx")]

\* The fields dropped once drop has returned or unwound: a guard held is
\* released.
drop_fields(m) ==
    [m EXCEPT !.self.gil = None, !.self.py = None,
              !.world.ffi = IF m.self.gil # None
                            THEN Append(@, "PyGILState_Release") ELSE @]

\* <MainPythonInterpreter as Drop>::drop
drop(m, fate) ==
    IF m.self.config.write_modules_directory_env # None
       /\ IsOk(env_var(m.world.env, m.self.config.write_modules_directory_env[1]))
    THEN IF fate = "panic"
         THEN drop_fields(write_modules_to_directory(
                              Noted(m, acquire_gil(m)), fate))
         ELSE drop_fields(Py_FinalizeEx(write_modules_to_directory(
                                            Noted(m, acquire_gil(m)), fate)))
    ELSE drop_fields(Py_FinalizeEx(m))

LifeConfigs ==
    [standard_io : BOOLEAN, use_custom_importlib : {FALSE}, argvb : {FALSE},
     write_modules_directory_env : {None, Some("KEY")}]

EnvStates == {"unset", "unicode", "not_unicode"}

WriteFates == {"ok", "panic"}

LifeFates == {"ok", "encoding", "argv"}

LifeInit ==
    /\ interp \in {MainPythonInterpreter_new(config) : config \in LifeConfigs}
    /\ python \in {NoPython @@ [ffi |-> <<>>, env |-> [KEY |-> e],
                                dropped |-> FALSE] : e \in EnvStates}
    /\ build \in [RUN_MODE : RunModes]
    /\ pyCall = NoPyCall

\* A public method called on a value that has not been dropped.
Public(op, r) ==
    /\ ~python.dropped
    /\ Len(python.ffi) < MaxFfi
    /\ PyReturns(op, [r EXCEPT !.m = Noted(Here, r.m)])

LifeCallInit(fate) ==
    \E i \in {init(Here, fate)} :
        Public("init", Ran(i, <<>>, IF i.world.panicked THEN "panic" ELSE "py"))

LifeCallRun(fate, outcome) ==
    Public("run", run(Here, build.RUN_MODE, fate, outcome))

LifeCallRunAndHandleError(fate, outcome) ==
    Public("run_and_handle_error",
           run_and_handle_error(Here, build.RUN_MODE, fate, outcome))

LifeCallRunCode(fate, outcome) ==
    Public("run_code", run_code(Here, fate, outcome))

LifeCallRunModuleAsMain(fate, outcome) ==
    Public("run_module_as_main", run_module_as_main(Here, fate, outcome))

LifeCallRunRepl(fate, outcome) ==
    Public("run_repl", run_repl(Here, fate, outcome))

LifeCallAcquireGil == Public("acquire_gil", Ran(acquire_gil(Here), <<>>, "py"))

LifeCallReleaseGil == Public("release_gil", Ran(release_gil(Here), <<>>, "unit"))

LifeCallPrintErr == Public("print_err", print_err(Here))

\* The value goes out of scope, at the end of its use or while a panic
\* unwinds.
Drop(fate) ==
    /\ ~python.dropped
    /\ \E d \in {drop(Here, fate)} :
           /\ interp' = d.self
           /\ python' = [d.world EXCEPT !.dropped = TRUE]
           /\ pyCall' = [op |-> "drop", used |-> <<>>,
                         result |-> IF \E i \in 1..Len(d.world.ffi) :
                                           d.world.ffi[i] = "panic in write_modules"
                                    THEN "panic" ELSE "unit"]
    /\ UNCHANGED <<build, exceptPy>>

LifeNext ==
    \/ \E fate \in LifeFates : LifeCallInit(fate)
    \/ \E fate \in LifeFates, outcome \in Outcomes : LifeCallRun(fate, outcome)
    \/ \E fate \in LifeFates, outcome \in Outcomes :
           LifeCallRunAndHandleError(fate, outcome)
    \/ \E fate \in LifeFates, outcome \in Outcomes :
           LifeCallRunCode(fate, outcome)
    \/ \E fate \in LifeFates, outcome \in Outcomes :
           LifeCallRunModuleAsMain(fate, outcome)
    \/ \E fate \in LifeFates, outcome \in Outcomes :
           LifeCallRunRepl(fate, outcome)
    \/ LifeCallAcquireGil
    \/ LifeCallReleaseGil
    \/ LifeCallPrintErr
    \/ \E fate \in WriteFates : Drop(fate)

----------------------------------------------------------------------------
(* Windows support code (tugger/src/windows.rs).  target is the platform   *)
(* the crate is built for; machine is what the functions find on it:       *)
(* whether each known folder can be looked up, under which of them         *)
(* vswhere.exe exists, how running vswhere ends, and the redistributable   *)
(* DLLs under the installation path.                                       *)

Targets == {"windows", "unix", "other"}

\* #[cfg(windows)] or #[cfg(unix)]: the targets the two functions exist on.
Defined(t) == t \in {"windows", "unix"}

VCRedistributablePlatform == {"x86", "x64", "arm64"}

RedistVersions == {"14", "15"}

KnownFolders == <<"ProgramFilesX86", "ProgramData">>

\* get_known_folder_path
get_known_folder_path(h, id) ==
    IF h.folders[id] = "error" THEN Err("last_os_error") ELSE Ok(<<id>>)

VswhereUnder(folder) ==
    folder \o <<"Microsoft Visual Studio", "Installer", "vswhere.exe">>

\* The loop over the candidates of find_vswhere, from candidate k on.
RECURSIVE find_vswhere_from(_, _)
find_vswhere_from(h, k) ==
    IF k > Len(KnownFolders) THEN Err("could not find vswhere.exe")
    ELSE IF IsErr(get_known_folder_path(h, KnownFolders[k]))
    THEN Err(get_known_folder_path(h, KnownFolders[k]).err)
    ELSE IF KnownFolders[k] \in h.vswhere
    THEN Ok(VswhereUnder(get_known_folder_path(h, KnownFolders[k]).val))
    ELSE find_vswhere_from(h, k + 1)

\* A slip: the search made on every target.
find_vswhere_anywhere(t, h) == find_vswhere_from(h, 1)

\* find_vswhere: the search on Windows, an error on unix.
find_vswhere(t, h) ==
    IF t = "windows" THEN find_vswhere_from(h, 1)
    ELSE Err("finding vswhere.exe only supported on Windows")

\* The DLLs the glob matches: version directory redist_version.*, platform.
Globbed(h, redist_version, platform) ==
    {d \in h.redist : d.major = redist_version /\ d.platform = platform}

\* The entries of the greatest version.
LastVersion(paths) ==
    {d \in paths : \A e \in paths : e.minor <= d.minor}

\* find_visual_cpp_redistributable on Windows, vswhere.exe found.
redistributable_from(h, redist_version, platform) ==
    IF h.run = "error" THEN Err("vswhere failed")
    ELSE IF h.run = "not_utf8" THEN Err("FromUtf8Error")
    ELSE IF h.run = "no_crlf" THEN Err("unable to strip string")
    ELSE IF \E d \in Globbed(h, redist_version, platform) : ~d.semver
    THEN Err("semver error")
    ELSE IF Globbed(h, redist_version, platform) = {}
    THEN Err("unable to find install VC++ Redistributable")
    ELSE Ok({d.file : d \in LastVersion(Globbed(h, redist_version, platform))})

\* A slip: the search made on every target.
find_visual_cpp_redistributable_anywhere(t, h, redist_version, platform) ==
    IF IsErr(find_vswhere_from(h, 1)) THEN find_vswhere_from(h, 1)
    ELSE redistributable_from(h, redist_version, platform)

\* find_visual_cpp_redistributable: the search on Windows, an error on unix.
find_visual_cpp_redistributable(t, h, redist_version, platform) ==
    IF t = "windows"
    THEN IF IsErr(find_vswhere(t, h)) THEN find_vswhere(t, h)
         ELSE redistributable_from(h, redist_version, platform)
    ELSE Err("Finding the Visual C++ Redistributable is not supported outside of Windows")

Dll(major, minor, semver, platform, file) ==
    [major |-> major, minor |-> minor, semver |-> semver,
     platform |-> platform, file |-> file]

RedistTrees ==
    { {},
      {Dll("14", 1, TRUE, "x64", "a")},
      {Dll("14", 1, TRUE, "x64", "a"), Dll("14", 2, TRUE, "x64", "b"),
       Dll("14", 2, TRUE, "x86", "c")},
      {Dll("14", 1, FALSE, "x64", "d"), Dll("14", 1, TRUE, "arm64", "e")},
      {Dll("15", 0, TRUE, "arm64", "f"), Dll("14", 1, TRUE, "arm64", "g")} }

Hosts ==
    [folders : [{"ProgramFilesX86", "ProgramData"} -> {"ok", "error"}],
     vswhere : SUBSET {"ProgramFilesX86", "ProgramData"},
     run : {"ok", "error", "not_utf8", "no_crlf"},
     redist : RedistTrees]

NoWinCall == [op |-> "none"]

WinInit ==
    /\ target \in Targets
    /\ machine \in {h \in Hosts : h.run = "ok" \/ h.redist = {}}
    /\ winCall = NoWinCall

CallFindVswhere ==
    /\ Defined(target)
    /\ winCall' = [op |-> "find_vswhere", result |-> find_vswhere(target, machine)]
    /\ UNCHANGED <<target, machine, exceptWin>>

CallFindRedistributable(redist_version, platform) ==
    /\ Defined(target)
    /\ winCall' = [op |-> "find_visual_cpp_redistributable",
                   redist_version |-> redist_version, platform |-> platform,
                   result |-> find_visual_cpp_redistributable(
                                  target, machine, redist_version, platform)]
    /\ UNCHANGED <<target, machine, exceptWin>>

WinNext ==
    \/ CallFindVswhere
    \/ \E v \in RedistVersions, p \in VCRedistributablePlatform :
           CallFindRedistributable(v, p)

----------------------------------------------------------------------------
(* The specifications: one per part, the other parts standing still.       *)

vars == <<ctlVars, httpVars, resVars, ordVars, pyVars, winVars, viewVars>>

CtlIdle == paragraph = <<>> /\ original = <<>> /\ accessor = "none" /\ accResult = None

HttpIdle ==
    /\ roots = {} /\ dist = None /\ release = None /\ flights = <<>>
    /\ httpCall = NoCall

ResIdle ==
    /\ pool = <<>> /\ resCall = NoQuery /\ queue = <<>> /\ visited = {}
    /\ deps = <<>> /\ resPc = "idle"

OrdIdle == versions = <<>> /\ cmpCall = NoComparison

ViewIdle == viewText = <<>> /\ views = <<>> /\ viewCall = NoViewCall

WinIdle == target = "none" /\ machine = <<>> /\ winCall = NoWinCall

PyIdle ==
    /\ interp = <<>> /\ python = NoPython /\ build = <<>> /\ pyCall = NoPyCall

ControlInit == CtlInit /\ HttpIdle /\ ResIdle /\ OrdIdle /\ PyIdle /\ WinIdle /\ ViewIdle

SpecControl == ControlInit /\ [][CtlNext]_vars

OptionalInit == OptInit /\ HttpIdle /\ ResIdle /\ OrdIdle /\ PyIdle /\ WinIdle /\ ViewIdle

SpecOptional == OptionalInit /\ [][OptNext]_vars

ViewsInit == CtlIdle /\ HttpIdle /\ ResIdle /\ OrdIdle /\ PyIdle /\ WinIdle /\ ViewInit

SpecViews == ViewsInit /\ [][ViewNext]_vars

ClientInit == CtlIdle /\ HttpInit /\ ResIdle /\ OrdIdle /\ PyIdle /\ WinIdle /\ ViewIdle

SpecHttp == ClientInit /\ [][HttpNext]_vars

ReleaseClientInit == CtlIdle /\ ReleaseInit /\ ResIdle /\ OrdIdle /\ PyIdle /\ WinIdle /\ ViewIdle

SpecRelease == ReleaseClientInit /\ [][ReleaseNext]_vars

ConcurrentInit == CtlIdle /\ FetchInit /\ ResIdle /\ OrdIdle /\ PyIdle /\ WinIdle /\ ViewIdle

SpecFetch == ConcurrentInit /\ [][FetchNext]_vars

ResolverInit == CtlIdle /\ HttpIdle /\ ResInit /\ OrdIdle /\ PyIdle /\ WinIdle /\ ViewIdle

SpecResolver == ResolverInit /\ [][ResNext]_vars

\* A traversal under way is one call running: it takes its next step.
SpecResolverFair == SpecResolver /\ WF_vars(Visit)

VersionInit == CtlIdle /\ HttpIdle /\ ResIdle /\ OrdInit /\ PyIdle /\ WinIdle /\ ViewIdle

SpecVersion == VersionInit /\ [][OrdNext]_vars

InterpreterInit == CtlIdle /\ HttpIdle /\ ResIdle /\ OrdIdle /\ PyInit /\ WinIdle /\ ViewIdle

SpecInterpreter == InterpreterInit /\ [][PyNext]_vars

LifetimeInit == CtlIdle /\ HttpIdle /\ ResIdle /\ OrdIdle /\ LifeInit /\ WinIdle /\ ViewIdle

SpecLifetime == LifetimeInit /\ [][LifeNext]_vars

WindowsInit == CtlIdle /\ HttpIdle /\ ResIdle /\ OrdIdle /\ PyIdle /\ WinInit /\ ViewIdle

SpecWindows == WindowsInit /\ [][WinNext]_vars

----------------
(* Properties of the accessors.                                            *)

HasField(p, name) == \E i \in 1..Len(p) : FieldNameMatches(p[i].name, name)

\* The value of the first field of p that is called name.
FirstValue(p, name) ==
    LET i == CHOOSE k \in 1..Len(p) :
                 /\ FieldNameMatches(p[k].name, name)
                 /\ \A j \in 1..(k - 1) : ~FieldNameMatches(p[j].name, name)
    IN  p[i].value

RequiredAccessors ==
    { <<"package", "Package">>, <<"version_str", "Version">>,
      <<"architecture", "Architecture">>, <<"maintainer", "Maintainer">>,
      <<"description", "Description">> }

\* C1: a required accessor fails with RequiredFieldMissing naming its own
\* field when the paragraph has no such field and otherwise returns the value
\* of the first occurrence; version() without a Version field fails with
\* RequiredFieldMissing("Version"), not with a version error.
C1_RequiredFields ==
    /\ \A a \in RequiredAccessors :
           accessor = a[1] =>
               IF HasField(paragraph, a[2])
               THEN accResult = Ok(FirstValue(paragraph, a[2]))
               ELSE accResult = Err(RequiredFieldMissing(a[2]))
    /\ (accessor = "version" /\ ~HasField(paragraph, "Version")) =>
           accResult = Err(RequiredFieldMissing("Version"))

C1_Witness ==
    /\ accessor = "version"
    /\ paragraph # <<>>
    /\ ~HasField(paragraph, "Version")
    /\ accResult = Err(RequiredFieldMissing("Version"))

RelationAccessors ==
    { <<"depends", "Depends">>, <<"pre_depends", "Pre-Depends">>,
      <<"recommends", "Recommends">>, <<"suggests", "Suggests">>,
      <<"enhances", "Enhances">> }

\* C2: a relationship accessor returns an absent value (never an error) when
\* its field is absent; when the field is present it returns the parse of the
\* first occurrence's text, and that is an error exactly when the text is a
\* malformed dependency list.
C2_RelationFields ==
    \A a \in RelationAccessors :
        accessor = a[1] =>
            IF ~HasField(paragraph, a[2])
            THEN accResult = None
            ELSE LET parsed == DependencyListParse(FirstValue(paragraph, a[2]))
                 IN  /\ accResult # None
                     /\ IsErr(accResult[1]) <=> IsErr(parsed)
                     /\ IsOk(parsed) => accResult[1] = Ok(parsed.val)
                     /\ IsErr(parsed) => accResult[1].err.kind = "Depends"

C2_Witness ==
    /\ accessor = "pre_depends"
    /\ Len(paragraph) = 2
    /\ FieldNameMatches(paragraph[1].name, "Pre-Depends")
    /\ FieldNameMatches(paragraph[2].name, "Pre-Depends")
    /\ IsErr(DependencyListParse(paragraph[1].value))
    /\ IsOk(DependencyListParse(paragraph[2].value))
    /\ IsErr(accResult[1])

----------------------------------------------------------------------------
(* Properties of the HTTP clients.                                         *)

\* t is s without its leading '/' characters.
IsLeadingStripped(s, t) ==
    \E i \in 1..(Len(s) + 1) :
        /\ t = SubSeq(s, i, Len(s))
        /\ \A k \in 1..(i - 1) : s[k] = "/"
        /\ (t = <<>> \/ t[1] # "/")

\* t is s without its leading and trailing '/' characters.
IsStripped(s, t) ==
    \E i \in 1..(Len(s) + 1), j \in 0..Len(s) :
        /\ t = SubSeq(s, i, j)
        /\ \A k \in 1..(i - 1) : s[k] = "/"
        /\ \A k \in (j + 1)..Len(s) : s[k] = "/"
        /\ (t = <<>> \/ (t[1] # "/" /\ t[Len(t)] # "/"))

IsConstructorCall(call) == call.op \in {"new", "new_client"}

C3_RootUrl ==
    /\ \A r \in roots : ends_with(r.root_url.path, "/")
    /\ IsConstructorCall(httpCall) =>
           LET parsed == into_url(httpCall.url)
               built == httpCall.result.val.root_url
           IN  IF IsErr(parsed) THEN IsErr(httpCall.result)
               ELSE /\ IsOk(httpCall.result)
                    /\ httpCall.result.val \in roots
                    /\ built.scheme = parsed.val.scheme
                    /\ built.host = parsed.val.host
                    /\ built.path = IF ends_with(parsed.val.path, "/")
                                    THEN parsed.val.path
                                    ELSE parsed.val.path \o <<"/">>

C3_NoClientOnError ==
    (IsConstructorCall(httpCall') /\ IsErr(httpCall'.result)) => roots' = roots

\* C3: after new or new_client succeeds the path of root_url() ends with '/':
\* a path that ended with '/' is kept, any other gets exactly one '/'
\* appended; an unparsable URL yields an error and no client.
C3_TrailingSlash == []C3_RootUrl /\ [][C3_NoClientOnError]_vars

C3_Witness ==
    /\ httpCall.op = "new"
    /\ IsOk(httpCall.result)
    /\ ~ends_with(into_url(httpCall.url).val.path, "/")
    /\ httpCall.result.val.root_url.path = <<"/", "a", "/">>

\* C4: get_path(p) of a distribution client with prefix d makes exactly one
\* get_path call, on its root client, with d (no leading or trailing '/'),
\* then "/", then p (no leading '/'), and returns that call's result unchanged.
C4_DistGetPathDelegates ==
    httpCall.op = "dist.get_path" =>
        /\ Len(httpCall.rootCalls) = 1
        /\ httpCall.rootCalls[1].client = httpCall.self.root_client
        /\ \E a \in {SubSeq(httpCall.self.distribution_path, i, j) :
                         i \in 1..(Len(httpCall.self.distribution_path) + 1),
                         j \in 0..Len(httpCall.self.distribution_path)},
              b \in {SubSeq(httpCall.path, i, Len(httpCall.path)) :
                         i \in 1..(Len(httpCall.path) + 1)} :
               /\ IsStripped(httpCall.self.distribution_path, a)
               /\ IsLeadingStripped(httpCall.path, b)
               /\ httpCall.rootCalls[1].path = a \o <<"/">> \o b
               /\ httpCall.rootCalls[1].result =
                      HttpRepositoryClient_get_path(
                          httpCall.self.root_client, a \o <<"/">> \o b,
                          httpCall.net).result
        /\ httpCall.result = httpCall.rootCalls[1].result

C4_Witness ==
    /\ httpCall.op = "dist.get_path"
    /\ httpCall.self.distribution_path = <<"d", "i", "s", "t", "s", "/", "a", "/", "b">>
    /\ httpCall.path = <<"/", "/", "a", "/">>
    /\ httpCall.rootCalls[1].path =
           <<"d", "i", "s", "t", "s", "/", "a", "/", "b", "/", "a", "/">>
    /\ IsErr(httpCall.result)

C5_Prefix ==
    /\ httpCall.op = "distribution_client" =>
           /\ httpCall.self \in roots
           /\ dist # None
           /\ dist[1].root_client = httpCall.self
           /\ \E t \in {SubSeq(httpCall.arg, i, j) :
                            i \in 1..(Len(httpCall.arg) + 1), j \in 0..Len(httpCall.arg)} :
                  /\ IsStripped(httpCall.arg, t)
                  /\ dist[1].distribution_path = <<"d", "i", "s", "t", "s", "/">> \o t
    /\ httpCall.op = "distribution_client_raw_path" =>
           /\ httpCall.self \in roots
           /\ dist # None
           /\ dist[1].root_client = httpCall.self
           /\ IsStripped(httpCall.arg, dist[1].distribution_path)

C5_RootUntouched ==
    httpCall'.op \in {"distribution_client", "distribution_client_raw_path"} =>
        roots' = roots

\* C5: distribution_client(n) yields the prefix "dists/" followed by n without
\* its leading and trailing '/', distribution_client_raw_path(p) yields p
\* without its leading and trailing '/' and without "dists/"; both are bound
\* to the root client they were derived from and leave it unchanged.
C5_DistributionClient == []C5_Prefix /\ [][C5_RootUntouched]_vars

C5_Witness ==
    /\ httpCall.op = "distribution_client"
    /\ httpCall.arg = <<"/", "a", "/", "b", "/", "/">>
    /\ dist[1].distribution_path = <<"d", "i", "s", "t", "s", "/", "a", "/", "b">>
    /\ Cardinality(roots) = 2
    /\ dist[1].root_client = httpCall.self

\* What went wrong with the request of a fetch.
Cause(net) ==
    IF net.send = "error" THEN "transport failure"
    ELSE IF net.status = 404 THEN "path not found"
    ELSE IF StatusIsError(net.status) THEN "non-success status"
    ELSE "none"

\* The condition an error value reports: its variant and, for an I/O error,
\* its kind and the fixed part of its message.
ErrorCondition(e) ==
    IF e.variant = "IoPath" THEN <<e.variant, e.kind, e.what[1]>> ELSE <<e.variant>>

\* C6: a failing get_path reports path-not-found, transport failure and
\* non-success status as distinct conditions: the error returned for one of
\* these causes is never the same condition as the error for another.
C6_DistinctConditions ==
    (/\ httpCall.op = "root.get_path"
     /\ httpCall.requests # <<>>
     /\ IsErr(httpCall.result)) =>
        \A other \in NetOutcomes :
            (Cause(other) \notin {"none", Cause(httpCall.net)}) =>
                LET r == HttpRepositoryClient_get_path(
                             httpCall.self, httpCall.path, other).result
                IN  ErrorCondition(r.err) # ErrorCondition(httpCall.result.err)

----------------------------------------------------------------------------
(* Properties of the dependency resolver.                                  *)

IsTransitive == resCall.op = "transitive"

IsDirect == resCall.op = "direct"

NameOf(pkg) == pkg.package.val

\* The pool of the cycle: a depends on b, b depends on a, nothing else.
IsCyclePool ==
    /\ Len(pool) = 2
    /\ pool[1].control = Package(<<"a">>, V10, <<Field("Depends", <<"b">>)>>)
    /\ NameOf(pool[2]) = <<"b">>
    /\ Len(pool[2].control) = 4
    /\ first_field_str(pool[2].control, "Depends") = Some(<<"a">>)

IsCycleQuery ==
    /\ IsCyclePool /\ IsTransitive
    /\ resCall.root = pool[1] /\ resCall.kinds = <<"Depends">>

C7_NoDuplicate ==
    IsTransitive =>
        \A i, j \in 1..Len(deps) :
            i # j => package_identity(deps[i].package) # package_identity(deps[j].package)

C7_CycleResult ==
    (IsCycleQuery /\ resPc # "running") =>
        /\ resPc = "done"
        /\ deps = <<[package |-> pool[2], source |-> pool[1]]>>

C7_Ends == (resPc = "running") ~> (resPc \in {"done", "failed"})

\* C7: a transitive query that is running comes to its end on every pool,
\* cyclic ones included; no package identity appears twice among the
\* dependencies; on the pool a Depends b, b Depends a the query on a over
\* [Depends] ends with b, pulled in by a, and nothing else.
C7_TerminatesOnCycles == []C7_NoDuplicate /\ []C7_CycleResult /\ C7_Ends

C7_Witness ==
    /\ IsCycleQuery
    /\ resPc = "done"
    /\ Len(deps) = 1
    /\ NameOf(deps[1].package) = <<"b">>
    /\ first_field_str(deps[1].package.control, "Depends") = Some(<<"a">>)

\* The packages of the traversal in the order it takes them up.
TraversalOrder == <<resCall.root>> \o [i \in 1..Len(deps) |-> deps[i].package]

\* Whether one of the relations of p, of the kinds queried, resolves to d.
ResolvesTo(p, d) ==
    LET found == direct_over_kinds(pool, p, resCall.kinds)
    IN  /\ IsOk(found)
        /\ \E k \in 1..Len(found.val) :
               package_identity(found.val[k]) = package_identity(d)

\* C8: every dependency of a transitive query stands once in the result,
\* with one source; the source was taken up before the dependency, one of
\* its relations of the kinds queried resolves to the dependency, and no
\* package taken up earlier than the source has a relation that does.
C8_FirstSource ==
    IsTransitive =>
        \A i \in 1..Len(deps) :
            /\ \A k \in 1..Len(deps) :
                   package_identity(deps[k].package) = package_identity(deps[i].package)
                       => k = i
            /\ \E j \in 1..i :
                   /\ TraversalOrder[j] = deps[i].source
                   /\ ResolvesTo(deps[i].source, deps[i].package)
                   /\ \A k \in 1..(j - 1) :
                          ~ResolvesTo(TraversalOrder[k], deps[i].package)

C8_Witness ==
    /\ IsTransitive
    /\ resPc = "done"
    /\ \E i, j \in 1..Len(deps) :
           /\ deps[i].source = resCall.root
           /\ deps[j].source = deps[i].package
           /\ ResolvesTo(deps[j].package, deps[i].package)

\* Whether the pool package p is one the alternative asks for: it has the
\* name, and its version satisfies the constraint when there is one.
Fits(p, alt) ==
    /\ NameOf(p) = alt.package
    /\ \/ alt.constraint = None
       \/ satisfies_relation(version(p.control).val, alt.constraint[1].relation,
                             alt.constraint[1].version)

\* The alternatives of an expression the pool holds a package for.
Resolvable(expression) ==
    {j \in 1..Len(expression) : \E k \in 1..Len(pool) : Fits(pool[k], expression[j])}

FirstResolvable(expression) ==
    CHOOSE j \in Resolvable(expression) : \A m \in Resolvable(expression) : j <= m

C9_FirstAlternative ==
    (IsDirect /\ IsOk(resCall.result)) =>
        \A i \in 1..Len(resCall.result.val) :
            LET e == resCall.result.val[i]
            IN  IF Resolvable(e.expression) = {} THEN e.resolved = None
                ELSE /\ e.resolved # None
                     /\ \E k \in 1..Len(pool) : pool[k] = e.resolved[1]
                     /\ Fits(e.resolved[1], e.expression[FirstResolvable(e.expression)])

\* A query for the Depends of a, which are "b (>= 2.0)".
AsksForB20 ==
    /\ IsDirect
    /\ NameOf(resCall.pkg) = <<"a">>
    /\ resCall.kind = "Depends"
    /\ first_field_str(resCall.pkg.control, "Depends") = Some(AtLeast20("b"))

HoldsB(ver) ==
    \E k \in 1..Len(pool) :
        NameOf(pool[k]) = <<"b">> /\ version_str(pool[k].control).val = ver

C9_Example ==
    AsksForB20 =>
        /\ IsOk(resCall.result)
        /\ Len(resCall.result.val) = 1
        /\ IF HoldsB(V21)
           THEN /\ resCall.result.val[1].resolved # None
                /\ NameOf(resCall.result.val[1].resolved[1]) = <<"b">>
                /\ version_str(resCall.result.val[1].resolved[1].control).val = V21
           ELSE resCall.result.val[1].resolved = None

\* C9: a direct query resolves each expression to a pool package that fits
\* the first alternative, in source order, the pool holds a fitting package
\* for, and to nothing when there is no such alternative; asked for
\* b (>= 2.0) it selects b 2.1 when the pool holds b 1.0 and b 2.1, and
\* reports the expression unresolved when the pool holds only b 1.0.
C9_DirectResolution == C9_FirstAlternative /\ C9_Example

C9_Witness ==
    /\ AsksForB20
    /\ HoldsB(V10) /\ HoldsB(V21)
    /\ version_str(resCall.result.val[1].resolved[1].control).val = V21

\* The relation field a direct query reads, as the accessor returns it.
QueriedList == relation_list(resCall.pkg.control, resCall.kind)

\* C10: when the relation field of a direct query parses, the query
\* succeeds and answers every expression of the list, in order, with what
\* that expression resolves to on its own; an expression none of whose
\* alternatives resolves is answered with nothing, and the expressions
\* around it are answered all the same.
C10_UnresolvedReported ==
    (IsDirect /\ QueriedList # None /\ IsOk(QueriedList[1])) =>
        /\ IsOk(resCall.result)
        /\ Len(resCall.result.val) = Len(QueriedList[1].val)
        /\ \A i \in 1..Len(QueriedList[1].val) :
               /\ resCall.result.val[i].expression = QueriedList[1].val[i]
               /\ (resCall.result.val[i].resolved = None) <=>
                      (\A j \in 1..Len(QueriedList[1].val[i]) :
                           resolve_alternative(pool, QueriedList[1].val[i][j]) = None)
               /\ resCall.result.val[i].resolved # None =>
                      \E k \in 1..Len(pool) : pool[k] = resCall.result.val[i].resolved[1]

C10_Witness ==
    /\ IsDirect
    /\ IsOk(resCall.result)
    /\ Len(resCall.result.val) = 2
    /\ resCall.result.val[1].resolved = None
    /\ resCall.result.val[2].resolved # None

\* The place of the package p in the order of the traversal.
PlaceOf(p) ==
    CHOOSE j \in 1..Len(TraversalOrder) :
        package_identity(TraversalOrder[j]) = package_identity(p)

\* The packages the relation of kind number k of the package s resolves to.
ResolvedByKind(s, k) ==
    resolved_packages(find_direct_dependencies(pool, s, resCall.kinds[k]).val)

\* Where the traversal met d when it expanded s: the number of the first kind,
\* in the order the caller gave, that resolves to d, and the place of d in
\* what that kind resolved.
MetAt(s, d) ==
    LET k == CHOOSE n \in 1..Len(resCall.kinds) :
                 /\ \E m \in 1..Len(ResolvedByKind(s, n)) : ResolvedByKind(s, n)[m] = d
                 /\ \A o \in 1..(n - 1) :
                        \A m \in 1..Len(ResolvedByKind(s, o)) : ResolvedByKind(s, o)[m] # d
        m == CHOOSE n \in 1..Len(ResolvedByKind(s, k)) :
                 /\ ResolvedByKind(s, k)[n] = d
                 /\ \A o \in 1..(n - 1) : ResolvedByKind(s, k)[o] # d
    IN  <<k, m>>

\* The breadth-first rank of an entry of the result.
RankOf(i) ==
    <<PlaceOf(deps[i].source)>> \o MetAt(deps[i].source, deps[i].package)

LexLess(x, y) ==
    \E n \in 1..Len(x) : x[n] < y[n] /\ \A m \in 1..(n - 1) : x[m] = y[m]

\* The result of a finished traversal is in breadth-first order: sources in
\* the order they were taken up, for one source the kinds in the caller's
\* order, for one kind the order of its list; and nothing reachable is left out.
C11_BreadthFirst ==
    (IsTransitive /\ resPc = "done") =>
        /\ \A i, j \in 1..Len(deps) : i < j => LexLess(RankOf(i), RankOf(j))
        /\ \A j \in 1..Len(TraversalOrder), k \in 1..Len(resCall.kinds) :
               \A m \in 1..Len(ResolvedByKind(TraversalOrder[j], k)) :
                   \E n \in 1..Len(TraversalOrder) :
                       package_identity(TraversalOrder[n])
                           = package_identity(ResolvedByKind(TraversalOrder[j], k)[m])

C11_SameAgain ==
    (IsTransitive /\ resPc = "done" /\ resCall.before # None) =>
        deps = resCall.before[1]

\* C11: a transitive query run again on the same pool, root and kinds
\* returns the same (dependency, source) pairs in the same order, and the
\* order of a result is the breadth-first one, kind by kind as the caller
\* listed the kinds.
C11_Deterministic == C11_SameAgain /\ C11_BreadthFirst

C11_Witness ==
    /\ IsTransitive /\ resPc = "done"
    /\ resCall.before # None
    /\ Len(resCall.kinds) = 2
    /\ Len(deps) >= 2
    /\ deps[1].source = resCall.root /\ deps[2].source = resCall.root
    /\ MetAt(resCall.root, deps[1].package)[1] = 1
    /\ MetAt(resCall.root, deps[2].package)[1] = 2

----------------------------------------------------------------------------
(* Properties of the version ordering.                                     *)

Lt(a, b) == compare_versions(a, b) < 0

\* Exactly one of the three conditions holds.
ExactlyOne(x, y, z) == (x /\ ~y /\ ~z) \/ (~x /\ y /\ ~z) \/ (~x /\ ~y /\ z)

\* Every component of a compares equal to that of b.
ComponentsEqual(a, b) ==
    /\ a.epoch = b.epoch
    /\ compare_component(a.upstream_version, b.upstream_version) = 0
    /\ compare_component(RevisionText(a), RevisionText(b)) = 0

C12_Chain ==
    /\ Lt(Parsed(<<"1", ".", "0", "~", "r", "c", "1">>), Parsed(<<"1", ".", "0">>))
    /\ Lt(Parsed(<<"1", ".", "0">>), Parsed(<<"1", ".", "0", "-", "1">>))
    /\ Lt(Parsed(<<"1", ".", "0", "-", "1">>), Parsed(<<"1", ".", "0", "-", "2">>))
    /\ Lt(Parsed(<<"1", ".", "0", "-", "2">>), Parsed(<<"2", ":", "1", ".", "0", "-", "1">>))

\* C12: of a < b, a = b and a > b exactly one holds; the order is
\* transitive; versions whose components all compare equal are equal, their
\* text differing or not; a comparison made returns the ordering and the
\* opposite one for the operands exchanged; and
\* 1.0~rc1 < 1.0 < 1.0-1 < 1.0-2 < 2:1.0-1.
C12_TotalOrder ==
    /\ versions # <<>> =>
           LET cmp == [i \in Operands |->
                          [j \in Operands |-> compare_versions(versions[i], versions[j])]]
           IN  /\ \A i, j \in Operands :
                      /\ ExactlyOne(cmp[i][j] < 0, cmp[i][j] = 0, cmp[j][i] < 0)
                      /\ ComponentsEqual(versions[i], versions[j]) <=> (cmp[i][j] = 0)
               /\ \A i, j, k \in Operands :
                      /\ (cmp[i][j] < 0 /\ cmp[j][k] < 0) => cmp[i][k] < 0
                      /\ (cmp[i][j] <= 0 /\ cmp[j][k] <= 0) => cmp[i][k] <= 0
               /\ C12_Chain
    /\ cmpCall.op = "cmp" =>
           /\ cmpCall.ordering \in {-1, 0, 1}
           /\ cmpCall.ordering
                  = -compare_versions(versions[cmpCall.right], versions[cmpCall.left])

C12_Witness ==
    /\ cmpCall.op = "cmp"
    /\ cmpCall.ordering = 0
    /\ versions[cmpCall.left] # versions[cmpCall.right]
    /\ \E k \in Operands : Lt(versions[k], versions[cmpCall.left])

----------------------------------------------------------------------------
(* The view as a read-only one.                                            *)

\* C13: whatever operations were made on a BinaryPackageControlFile, the
\* wrapped paragraph has the fields, in the order and with the values, of
\* the paragraph the view was made from.
C13_ReadOnlyView == paragraph = original


----------------------------------------------------------------------------
(* Properties of the release client.                                       *)

\* What the setter and the getter of the preferred compression report.
C14_SetThenGet ==
    /\ httpCall.op = "set_preferred_compression" =>
           release # None /\ preferred_compression(release[1]) = httpCall.arg
    /\ httpCall.op = "preferred_compression" =>
           httpCall.result = release[1].fetch_compression

\* A step that leaves another release client behind is a fetch_inrelease,
\* which built a new one, or a set_preferred_compression, which changed the
\* setting and nothing else.
C14_OnlySetterWrites ==
    release' # release =>
        \/ httpCall'.op = "fetch_inrelease"
        \/ /\ httpCall'.op = "set_preferred_compression"
           /\ release # None /\ release' # None
           /\ release'[1].fetch_compression = httpCall'.arg
           /\ release_file(release'[1]) = release_file(release[1])
           /\ release'[1].root_client = release[1].root_client
           /\ release'[1].distribution_path = release[1].distribution_path

\* C14: on a release client set_preferred_compression(c) is the only
\* operation that changes a field and it changes the preferred compression
\* alone: preferred_compression() then returns c until the next set, and
\* release_file(), the root client and the distribution path stay as they
\* were.
C14_SetterFrame == []C14_SetThenGet /\ [][C14_OnlySetterWrites]_vars

\* A compression other than the default one read back from a client whose
\* manifest has fields.
C14_Witness ==
    /\ httpCall.op = "preferred_compression"
    /\ httpCall.result = "Gzip"
    /\ release_file(release[1]).paragraph # <<>>

\* The root client a get_path call ends at and the path it hands to it.
RootOf(call) ==
    IF call.op = "root.get_path" THEN call.self ELSE call.self.root_client

TargetOf(call) ==
    IF call.op = "root.get_path" THEN call.path
    ELSE join_path(call.self.distribution_path, call.path)

Joined(call) == url_join(RootOf(call).root_url, TargetOf(call))

TransportFailed(net) == net.send = "error" \/ StatusIsError(net.status)

\* C15: a get_path call on a root, distribution or release client sends at
\* most one HTTP request; a transport failure or an error status comes back
\* as an error after that one request, and a path that cannot be joined to
\* the root URL is reported with no request sent.
C15_AtMostOneRequest ==
    httpCall.op \in GetPathOps =>
        /\ Len(httpCall.requests) <= 1
        /\ IsErr(Joined(httpCall)) =>
               httpCall.requests = <<>> /\ IsErr(httpCall.result)
        /\ IsOk(Joined(httpCall)) =>
               /\ Len(httpCall.requests) = 1
               /\ httpCall.requests[1].url = Joined(httpCall).val
               /\ TransportFailed(httpCall.net) <=> IsErr(httpCall.result)

\* A release client's request that could not be sent.
C15_Witness ==
    /\ httpCall.op = "release.get_path"
    /\ httpCall.net.send = "error"
    /\ Len(httpCall.requests) = 1
    /\ IsErr(httpCall.result)

\* The steps of a fetch_inrelease at which it can fail.
FetchFails(call) ==
    \/ IsErr(Joined([call EXCEPT !.op = "dist.get_path"]))
    \/ TransportFailed(call.net)
    \/ call.read = "error"
    \/ IsErr(from_armored_reader(call.data))

\* What a fetch_inrelease returns depends on the distribution client and on
\* what the network answered, whatever was fetched before.
C17_ErrorOrClient ==
    httpCall.op = "fetch_inrelease" =>
        IF FetchFails(httpCall)
        THEN IsErr(httpCall.result)
        ELSE /\ IsOk(httpCall.result)
             /\ release = Some(httpCall.result.val)
             /\ release_file(release[1]) = from_armored_reader(httpCall.data).val
             /\ release[1].root_client = httpCall.self.root_client
             /\ release[1].distribution_path = httpCall.self.distribution_path

\* A fetch_inrelease that failed left every client as it was.
C17_FailureLeavesClients ==
    (httpCall'.op = "fetch_inrelease" /\ IsErr(httpCall'.result)) =>
        UNCHANGED <<roots, dist, release>>

\* C17: a fetch_inrelease that fails at the fetch, at the reading of the
\* body or at the parsing of the manifest returns an error and no release
\* client; the distribution client and the root client are as before, and
\* a later fetch_inrelease does what it would have done without the failed
\* one.
C17_FailedFetch == []C17_ErrorOrClient /\ [][C17_FailureLeavesClients]_vars

\* A fetch_inrelease that gave a release client right after one that failed.
C17_Witness ==
    /\ httpCall.op = "fetch_inrelease"
    /\ httpCall.after_failure
    /\ IsOk(httpCall.result)
    /\ release_file(release[1]).paragraph # <<>>


\* get_path run alone on a client: the call as one step.
GetPathAlone(op, self, path, net) ==
    IF op = "root.get_path" THEN HttpRepositoryClient_get_path(self, path, net)
    ELSE IF op = "dist.get_path"
    THEN HttpDistributionClient_get_path(self, path, net)
    ELSE HttpReleaseClient_get_path(self, path, net)

\* A call that has sent its request or has its result sent and got what it
\* would have alone.
C16_AsIfAlone ==
    \A i \in 1..Len(flights) :
        LET f == flights[i]
            alone == GetPathAlone(f.op, ClientOf(f.op), f.path, f.net)
        IN  /\ f.pc # "created" => f.requests = alone.requests
            /\ f.pc = "done" => f.result = Some(alone.result)

\* A step of a call writes no field of a client, and no step writes a
\* client that a call in flight borrows.
C16_NoWriteInFlight ==
    /\ flights' # flights => UNCHANGED <<roots, dist, release>>
    /\ \A i \in 1..Len(flights) :
           InFlight(flights[i]) =>
               /\ roots' = roots
               /\ flights[i].op = "dist.get_path" => dist' = dist
               /\ flights[i].op = "release.get_path" => release' = release

\* C16: however concurrent get_path calls on one root, distribution or
\* release client interleave, each requests the URL and returns the result
\* it would alone, and no field of a client is written while a fetch is in
\* flight.
C16_IndependentFetches == []C16_AsIfAlone /\ [][C16_NoWriteInFlight]_vars

\* Two calls on the release client with different paths, the second done
\* before the first got its response.
C16_Witness ==
    /\ Len(flights) = 2
    /\ flights[1].op = "release.get_path" /\ flights[2].op = "release.get_path"
    /\ flights[1].path # flights[2].path
    /\ flights[1].pc = "sent" /\ flights[2].pc = "done"
    /\ release[1].fetch_compression = "Gzip"


----------------------------------------------------------------------------
(* Properties of MainPythonInterpreter.                                    *)

\* How often the parts of the initialization were executed.
Executed(world) ==
    <<world.settings, world.inittab, world.initialize, world.argv,
      world.argvb, world.frozen>>

C18_AtMostOnce == \A k \in 1..6 : Executed(python)[k] <= 1

\* On an initialized interpreter no call executes any of the initialization,
\* and init leaves the object with a handle.
C18_LaterCalls ==
    interp.init_run =>
        /\ Executed(python') = Executed(python)
        /\ interp'.init_run
        /\ pyCall'.op = "init" =>
               /\ interp'.py # None
               /\ pyCall'.result = "py"
               /\ interp.py # None => interp' = interp

\* C18: over any sequence of init, run, run_and_handle_error, run_code,
\* run_module_as_main, run_repl, acquire_gil and release_gil the
\* initialization of the interpreter (the global settings, Py_Initialize,
\* the setting of sys.argv) is executed at most once, by the first call that
\* initializes; a later init() only sees to it that the GIL is held and
\* returns a handle.
C18_InitializedOnce == []C18_AtMostOnce /\ [][C18_LaterCalls]_vars

\* An init() on an initialized interpreter whose GIL had been released.
C18_Witness ==
    /\ pyCall.op = "init"
    /\ python.initialize = 1 /\ python.argv = 1
    /\ interp.gil # None

RunOps == {"run", "run_code", "run_module_as_main", "run_repl"}

\* C19: run, run_code, run_module_as_main and run_repl initialize the
\* interpreter when needed: whatever was called before, at every call of the
\* Python API and every execution of Python code in them the interpreter is
\* initialized and the GIL is held.
C19_InitializedBeforeUse ==
    (pyCall.op \in RunOps /\ pyCall.result # "panic") =>
        /\ pyCall.used # <<>>
        /\ \A k \in 1..Len(pyCall.used) :
               /\ pyCall.used[k].init_run
               /\ pyCall.used[k].initialized
               /\ pyCall.used[k].py

\* Code run on an interpreter that had been initialized and had released
\* the GIL: the run took the GIL again.
C19_Witness ==
    /\ pyCall.op = "run_code"
    /\ pyCall.result = "Ok"
    /\ interp.gil # None

\* After release_gil neither handle nor guard is left.
C20_NothingHeld ==
    pyCall.op = "release_gil" => interp.py = None /\ interp.gil = None

\* release_gil changes at most the handle and the guard, and nothing on an
\* interpreter without a handle.
C20_ReleaseOnly ==
    pyCall'.op = "release_gil" =>
        /\ python' = python
        /\ interp' = [interp EXCEPT !.py = None, !.gil = None]
        /\ interp.py = None => interp' = interp

\* C20: release_gil sees to it that the GIL is released: from every state,
\* the one right after init() included, no handle and no guard are left
\* when it returns, and on an interpreter that does not hold the GIL it
\* changes nothing.
C20_GilReleased == []C20_NothingHeld /\ [][C20_ReleaseOnly]_vars

\* release_gil right after the init() that initialized: a handle without a
\* guard was given up.
C20_Witness ==
    /\ pyCall.op = "release_gil"
    /\ interp.init_run /\ interp.py = None
    /\ python.initialize = 1


----------------------------------------------------------------------------
(* Properties of the Windows support code.                                 *)

\* C21: on a platform that is not Windows find_visual_cpp_redistributable
\* returns an error for every version and every platform and find_vswhere
\* returns an error; neither returns a path.
C21_ErrorOffWindows ==
    (target # "windows" /\ winCall.op # "none") => IsErr(winCall.result)

\* The redistributable asked for on unix, on a machine that has
\* vswhere.exe and the DLLs.
C21_Witness ==
    /\ target = "unix"
    /\ winCall.op = "find_visual_cpp_redistributable"
    /\ winCall.redist_version = "14" /\ winCall.platform = "x64"
    /\ machine.vswhere # {} /\ machine.run = "ok"
    /\ \E d \in machine.redist : d.platform = "x64"
    /\ IsErr(winCall.result)

----------------------------------------------------------------------------
(* Properties of the optional fields.                                      *)

OptionalAccessors ==
    { <<"source", "Source">>, <<"section", "Section">>,
      <<"priority", "Priority">>, <<"essential", "Essential">>,
      <<"homepage", "Homepage">>, <<"built_using", "Built-Using">> }

\* The scalar accessors: absent exactly when there is no such field, else
\* the value of the first occurrence; the result has no error case.
ScalarOptional ==
    \A a \in OptionalAccessors :
        accessor = a[1] =>
            IF HasField(paragraph, a[2])
            THEN accResult = Some(FirstValue(paragraph, a[2]))
            ELSE accResult = None

IsIntegerParseError(r) ==
    r # None /\ IsErr(r[1]) /\ r[1].err.kind = "IntegerParse"

\* The digits of a text that is digits after at most one '+'.
Unsigned(x) == IF x # <<>> /\ Head(x) = "+" THEN Tail(x) ELSE x

\* A non-negative integer in decimal: digits, at least one, after at most
\* one '+'.
NonNegativeIntegerText(x) == Unsigned(x) # <<>> /\ AllDigits(Unsigned(x))

FitsUsize(x) ==
    /\ NonNegativeIntegerText(x)
    /\ ~Exceeds(StripZeros(Unsigned(x)), USIZE_MAX)

----------------------------------------------------------------------------
(* Properties of the views of one text.                                    *)

\* Every accessor called after a failed call returns what it returns on a
\* view fresh from the text.
C23_SameAnswers ==
    (viewCall.op = "call" /\ viewCall.after_failure) =>
        viewCall.result = Answer(viewCall.accessor, viewText)

\* A call that fails leaves every view as it was.
C23_FailureLeavesViews ==
    (viewCall'.op = "call" /\ Fails(viewCall'.accessor, viewCall'.result)) =>
        views' = views

\* C23: an accessor call that fails on a BinaryPackageControlFile (missing
\* required field, malformed version, malformed dependency list, non-integer
\* Installed-Size) leaves that view and every other view parsed from the
\* same text unchanged: every accessor called afterwards returns the same
\* result it would have returned had the failing call not been made.
C23_FailedCallChangesNothing ==
    []C23_SameAnswers /\ [][C23_FailureLeavesViews]_vars

\* installed_size failed on a text that is not a number, and package
\* answers on the same view afterwards.
C23_Witness ==
    /\ viewCall.op = "call" /\ viewCall.view = "this"
    /\ viewCall.accessor = "package"
    /\ viewCall.after_failure
    /\ viewCall.result = Ok(<<"a">>)
    /\ viewText = <<Field("Installed-Size", <<"1", "x">>),
                    Field("Package", <<"a">>)>>
    /\ views["this"] = viewText /\ views["other"] = viewText

----------------------------------------------------------------------------
(* Properties of the release client and of the paths sent to the root.     *)

\* C24: a release client returned by fetch_inrelease is bound to the same
\* root client and the same distribution path as the distribution client
\* that produced it, so for every path p its get_path(p) requests the same
\* URL as the distribution client's get_path(p); its preferred compression
\* is initially the first element of the default preferred order.
C24_BoundAsDistribution ==
    (httpCall.op = "fetch_inrelease" /\ IsOk(httpCall.result)) =>
        /\ release = Some(httpCall.result.val)
        /\ release[1].root_client = httpCall.self.root_client
        /\ release[1].distribution_path = httpCall.self.distribution_path
        /\ \A p \in ReleasePaths, net \in FetchNets :
               HttpReleaseClient_get_path(release[1], p, net).requests =
                   HttpDistributionClient_get_path(httpCall.self, p, net).requests
        /\ preferred_compression(release[1]) = default_preferred_order[1]

\* A release client fetched through the distribution client of
\* distribution a.
C24_Witness ==
    /\ httpCall.op = "fetch_inrelease" /\ IsOk(httpCall.result)
    /\ httpCall.self.distribution_path = DistsPrefix \o <<"a">>
    /\ release = Some(httpCall.result.val)
    /\ HttpReleaseClient_get_path(
           release[1], <<"a">>, [send |-> "ok", status |-> 200, body |-> "data"])
           .requests # <<>>

DerivedGetPathOps == {"dist.get_path", "release.get_path", "fetch_inrelease"}

StartsWith(s, prefix) ==
    Len(prefix) <= Len(s) /\ SubSeq(s, 1, Len(prefix)) = prefix

\* C25: for every distribution prefix (the empty prefix that
\* distribution_client_raw_path gives for "" or "/" included) and every path
\* p, the string a distribution or release client passes to the root client
\* never begins with '/', so the requested URL lies under the root URL's
\* path and does not replace it.
C25_UnderRoot ==
    httpCall.op \in DerivedGetPathOps =>
        /\ \A i \in 1..Len(httpCall.rootCalls) :
               ~starts_with(httpCall.rootCalls[i].path, "/")
        /\ \A i \in 1..Len(httpCall.requests) :
               StartsWith(httpCall.requests[i].url.path,
                          httpCall.self.root_client.root_url.path)

----------------------------------------------------------------------------
(* Properties of the life of an interpreter.                               *)

Calls(name) == {i \in 1..Len(python.ffi) : python.ffi[i] = name}

ModulesFileAsked ==
    /\ interp.config.write_modules_directory_env # None
    /\ python.env[interp.config.write_modules_directory_env[1]] # "unset"

\* C26: when a MainPythonInterpreter is dropped, Py_FinalizeEx is called
\* exactly once and last; if write_modules_directory_env is configured and
\* the environment variable it names is set, the GIL is acquired and the
\* modules file is written before finalization, and otherwise no modules
\* file is written.  A drop that a panic cuts short is left aside.
C26_DropFinalizes ==
    (python.dropped /\ pyCall.result # "panic") =>
        /\ Cardinality(Calls("Py_FinalizeEx")) = 1
        /\ \A f \in Calls("Py_FinalizeEx") :
               \A i \in Calls("write_modules") \cup Calls("GILGuard::acquire")
                         \cup Calls("write_modules without the GIL") : i < f
        /\ IF ModulesFileAsked
           THEN /\ Cardinality(Calls("write_modules")) = 1
                /\ Calls("write_modules without the GIL") = {}
           ELSE /\ Calls("write_modules") = {}
                /\ Calls("write_modules without the GIL") = {}

\* C27: over any sequence of public calls on a MainPythonInterpreter
\* followed by its drop, Py_Initialize has run before every acquisition of a
\* GIL guard (by acquire_gil, print_err or drop) and before the call to
\* Py_FinalizeEx.
C27_InitializedFirst ==
    \A i \in Calls("GILGuard::acquire") \cup Calls("Py_FinalizeEx") :
        \E j \in Calls("Py_Initialize") : j < i

====
